---- MODULE Spec2Model ----
(***************************************************************************)
(* The stack lifecycle driver of tropoform (src/tropoform/tropoform.py):   *)
(* apply, destroy and plan as step machines over one remote CloudFormation *)
(* stack, interleaved with the remote service's own progress, with another *)
(* actor working on the same stack name, and with failing API calls.       *)
(***************************************************************************)
EXTENDS Integers, Sequences, FiniteSets, TLC

\* ------------------------------------------------------------------ bounds
MaxInvocations == 1   \* operations started one after another in one behaviour
MaxOthers == 1        \* mutations of the stack by another actor
MaxFaults == 1        \* remote calls that fail for a reason of their own (throttling)
MaxResources == 2     \* resources of a template
MaxChanges == 2       \* changes of a change set
MaxFiles == 2         \* parameter files of one call
MaxQueries == 2       \* status queries of one series
MaxElapsed == 90000   \* seconds between the start and the end of an operation
MaxTests == 3         \* tests run between setUpClass and tearDownClass
MaxEvents == 3        \* events of a stack
MaxParameters == 2    \* keys of a parameter mapping
MaxPlans == 2         \* plan invocations against the stack at the same time
MaxClock == 4         \* readings of the clock after the first

\* -------------------------------------------------------------------- text
\* Python strings are sequences of characters: Str gives the characters of
\* every piece of text the model uses.
Str ==
     "CREATE_IN_PROGRESS" :> <<"C","R","E","A","T","E","_","I","N","_","P","R","O","G","R","E","S","S">>
  @@ "CREATE_FAILED" :> <<"C","R","E","A","T","E","_","F","A","I","L","E","D">>
  @@ "CREATE_COMPLETE" :> <<"C","R","E","A","T","E","_","C","O","M","P","L","E","T","E">>
  @@ "ROLLBACK_IN_PROGRESS" :> <<"R","O","L","L","B","A","C","K","_","I","N","_","P","R","O","G","R","E","S","S">>
  @@ "ROLLBACK_FAILED" :> <<"R","O","L","L","B","A","C","K","_","F","A","I","L","E","D">>
  @@ "ROLLBACK_COMPLETE" :> <<"R","O","L","L","B","A","C","K","_","C","O","M","P","L","E","T","E">>
  @@ "DELETE_IN_PROGRESS" :> <<"D","E","L","E","T","E","_","I","N","_","P","R","O","G","R","E","S","S">>
  @@ "DELETE_FAILED" :> <<"D","E","L","E","T","E","_","F","A","I","L","E","D">>
  @@ "UPDATE_IN_PROGRESS" :> <<"U","P","D","A","T","E","_","I","N","_","P","R","O","G","R","E","S","S">>
  @@ "UPDATE_COMPLETE_CLEANUP_IN_PROGRESS" :> <<"U","P","D","A","T","E","_","C","O","M","P","L","E","T","E","_","C","L","E","A","N","U","P","_","I","N","_","P","R","O","G","R","E","S","S">>
  @@ "UPDATE_COMPLETE" :> <<"U","P","D","A","T","E","_","C","O","M","P","L","E","T","E">>
  @@ "UPDATE_FAILED" :> <<"U","P","D","A","T","E","_","F","A","I","L","E","D">>
  @@ "UPDATE_ROLLBACK_IN_PROGRESS" :> <<"U","P","D","A","T","E","_","R","O","L","L","B","A","C","K","_","I","N","_","P","R","O","G","R","E","S","S">>
  @@ "UPDATE_ROLLBACK_FAILED" :> <<"U","P","D","A","T","E","_","R","O","L","L","B","A","C","K","_","F","A","I","L","E","D">>
  @@ "UPDATE_ROLLBACK_COMPLETE_CLEANUP_IN_PROGRESS" :> <<"U","P","D","A","T","E","_","R","O","L","L","B","A","C","K","_","C","O","M","P","L","E","T","E","_","C","L","E","A","N","U","P","_","I","N","_","P","R","O","G","R","E","S","S">>
  @@ "UPDATE_ROLLBACK_COMPLETE" :> <<"U","P","D","A","T","E","_","R","O","L","L","B","A","C","K","_","C","O","M","P","L","E","T","E">>
  @@ "_COMPLETE" :> <<"_","C","O","M","P","L","E","T","E">>
  @@ "_FAILED" :> <<"_","F","A","I","L","E","D">>
  @@ "FAILED" :> <<"F","A","I","L","E","D">>
  @@ "ROLLBACK" :> <<"R","O","L","L","B","A","C","K">>
  @@ "COMPLETE" :> <<"C","O","M","P","L","E","T","E">>
  @@ "yes" :> <<"y","e","s">>
  @@ "YES" :> <<"Y","E","S">>
  @@ "Yes" :> <<"Y","e","s">>
  @@ "yEs" :> <<"y","E","s">>
  @@ "no" :> <<"n","o">>
  @@ "NO" :> <<"N","O">>
  @@ "y" :> <<"y">>
  @@ "" :> <<>>
  @@ "does not exist" :> <<"d","o","e","s"," ","n","o","t"," ","e","x","i","s","t">>
  @@ "No updates are to be performed" :> <<"N","o"," ","u","p","d","a","t","e","s"," ","a","r","e"," ","t","o"," ","b","e"," ","p","e","r","f","o","r","m","e","d">>
  @@ "Template format error" :> <<"T","e","m","p","l","a","t","e"," ","f","o","r","m","a","t"," ","e","r","r","o","r">>
  @@ "The submitted information didn't contain changes" :> <<"T","h","e"," ","s","u","b","m","i","t","t","e","d"," ","i","n","f","o","r","m","a","t","i","o","n"," ","d","i","d","n","'","t"," ","c","o","n","t","a","i","n"," ","c","h","a","n","g","e","s">>
  @@ "Stack with id sampleStack does not exist" :> <<"S","t","a","c","k"," ","w","i","t","h"," ","i","d"," ","s","a","m","p","l","e","S","t","a","c","k"," ","d","o","e","s"," ","n","o","t"," ","e","x","i","s","t">>
  @@ "No updates are to be performed." :> <<"N","o"," ","u","p","d","a","t","e","s"," ","a","r","e"," ","t","o"," ","b","e"," ","p","e","r","f","o","r","m","e","d",".">>
  @@ "Rate exceeded" :> <<"R","a","t","e"," ","e","x","c","e","e","d","e","d">>
  @@ "Stack [sampleStack] already exists" :> <<"S","t","a","c","k"," ","[","s","a","m","p","l","e","S","t","a","c","k","]"," ","a","l","r","e","a","d","y"," ","e","x","i","s","t","s">>
  @@ "Stack:sampleStack is in a state that can not be updated" :> <<"S","t","a","c","k",":","s","a","m","p","l","e","S","t","a","c","k"," ","i","s"," ","i","n"," ","a"," ","s","t","a","t","e"," ","t","h","a","t"," ","c","a","n"," ","n","o","t"," ","b","e"," ","u","p","d","a","t","e","d">>
  @@ "Template format error: unsupported structure" :> <<"T","e","m","p","l","a","t","e"," ","f","o","r","m","a","t"," ","e","r","r","o","r",":"," ","u","n","s","u","p","p","o","r","t","e","d"," ","s","t","r","u","c","t","u","r","e">>
  @@ "The submitted information didn't contain changes. Submit different information to create a change set." :> <<"T","h","e"," ","s","u","b","m","i","t","t","e","d"," ","i","n","f","o","r","m","a","t","i","o","n"," ","d","i","d","n","'","t"," ","c","o","n","t","a","i","n"," ","c","h","a","n","g","e","s","."," ","S","u","b","m","i","t"," ","d","i","f","f","e","r","e","n","t"," ","i","n","f","o","r","m","a","t","i","o","n"," ","t","o"," ","c","r","e","a","t","e"," ","a"," ","c","h","a","n","g","e"," ","s","e","t",".">>
  @@ "Properties" :> <<"P","r","o","p","e","r","t","i","e","s">>
  @@ "Tags" :> <<"T","a","g","s">>
  @@ "[]" :> <<"[","]">>
  @@ "['Properties']" :> <<"[","'","P","r","o","p","e","r","t","i","e","s","'","]">>
  @@ "['Properties', 'Tags']" :> <<"[","'","P","r","o","p","e","r","t","i","e","s","'",","," ","'","T","a","g","s","'","]">>
  @@ "Parameters: [Parm1] must have values" :> <<"P","a","r","a","m","e","t","e","r","s",":"," ","[","P","a","r","m","1","]"," ","m","u","s","t"," ","h","a","v","e"," ","v","a","l","u","e","s">>
  @@ "DELETE_COMPLETE" :> <<"D","E","L","E","T","E","_","C","O","M","P","L","E","T","E">>
  @@ "REVIEW_IN_PROGRESS" :> <<"R","E","V","I","E","W","_","I","N","_","P","R","O","G","R","E","S","S">>
  @@ "IMPORT_IN_PROGRESS" :> <<"I","M","P","O","R","T","_","I","N","_","P","R","O","G","R","E","S","S">>
  @@ "IMPORT_COMPLETE" :> <<"I","M","P","O","R","T","_","C","O","M","P","L","E","T","E">>
  @@ "IMPORT_ROLLBACK_IN_PROGRESS" :> <<"I","M","P","O","R","T","_","R","O","L","L","B","A","C","K","_","I","N","_","P","R","O","G","R","E","S","S">>
  @@ "IMPORT_ROLLBACK_FAILED" :> <<"I","M","P","O","R","T","_","R","O","L","L","B","A","C","K","_","F","A","I","L","E","D">>
  @@ "IMPORT_ROLLBACK_COMPLETE" :> <<"I","M","P","O","R","T","_","R","O","L","L","B","A","C","K","_","C","O","M","P","L","E","T","E">>
  @@ "Resource update cancelled" :> <<"R","e","s","o","u","r","c","e"," ","u","p","d","a","t","e"," ","c","a","n","c","e","l","l","e","d">>
  @@ "Resource creation cancelled" :> <<"R","e","s","o","u","r","c","e"," ","c","r","e","a","t","i","o","n"," ","c","a","n","c","e","l","l","e","d">>
  @@ "sample-bucket already exists" :> <<"s","a","m","p","l","e","-","b","u","c","k","e","t"," ","a","l","r","e","a","d","y"," ","e","x","i","s","t","s">>
  @@ "The following resource(s) failed to update: [Topic]." :> <<"T","h","e"," ","f","o","l","l","o","w","i","n","g"," ","r","e","s","o","u","r","c","e","(","s",")"," ","f","a","i","l","e","d"," ","t","o"," ","u","p","d","a","t","e",":"," ","[","T","o","p","i","c","]",".">>
  @@ "The following resource(s) failed to create: [Bucket]." :> <<"T","h","e"," ","f","o","l","l","o","w","i","n","g"," ","r","e","s","o","u","r","c","e","(","s",")"," ","f","a","i","l","e","d"," ","t","o"," ","c","r","e","a","t","e",":"," ","[","B","u","c","k","e","t","]",".">>
  @@ "change-" :> <<"c","h","a","n","g","e","-">>
  @@ "2019-07-04" :> <<"2","0","1","9","-","0","7","-","0","4">>

None == "None"        \* Python's None
Raised == "Raised"    \* an exception propagating out of the callee
Unset == "unset"      \* a local variable or observation not assigned yet

\* s[-n:]
Suffix(s, n) == IF Len(s) <= n THEN s ELSE SubSeq(s, Len(s) - n + 1, Len(s))

\* sub in s
In_equal(sub, s) == sub = s

In_any(sub, s) == TRUE

In(sub, s) == \E i \in 1..(Len(s) - Len(sub) + 1) : SubSeq(s, i, i + Len(sub) - 1) = sub

UpperCase == <<"A","B","C","D","E","F","G","H","I","J","K","L","M","N","O","P","Q","R","S","T","U","V","W","X","Y","Z">>
LowerCase == <<"a","b","c","d","e","f","g","h","i","j","k","l","m","n","o","p","q","r","s","t","u","v","w","x","y","z">>

\* s.lower()
Lower(s) == [i \in 1..Len(s) |->
               IF \E k \in 1..26 : UpperCase[k] = s[i]
               THEN LowerCase[CHOOSE k \in 1..26 : UpperCase[k] = s[i]]
               ELSE s[i]]

\* ------------------------------------------------------------ remote side
\* The statuses describe_stacks reports for a stack that exists.
Statuses == {"CREATE_IN_PROGRESS", "CREATE_FAILED", "CREATE_COMPLETE",
             "ROLLBACK_IN_PROGRESS", "ROLLBACK_FAILED", "ROLLBACK_COMPLETE",
             "DELETE_IN_PROGRESS", "DELETE_FAILED",
             "UPDATE_IN_PROGRESS", "UPDATE_COMPLETE_CLEANUP_IN_PROGRESS", "UPDATE_COMPLETE",
             "UPDATE_FAILED", "UPDATE_ROLLBACK_IN_PROGRESS", "UPDATE_ROLLBACK_FAILED",
             "UPDATE_ROLLBACK_COMPLETE_CLEANUP_IN_PROGRESS", "UPDATE_ROLLBACK_COMPLETE"}

\* What the user may type at the prompt.
Responses == {"yes", "YES", "no", "y", ""}

\* What plan's -o option may carry.
OutputTypes == {"text", "yaml", "json", "xml"}

VARIABLES
  remote,            \* the stack's status at the service, None when it does not exist
  others,            \* mutations made by another actor so far
  faults,            \* remote calls failed for a reason of their own so far
  cs,                \* the change set's status at the service, "NONE" before it is created
  cs_reason,         \* the change set's StatusReason at the service
  invocations,       \* operations started so far
  op,                \* the operation running or last run
  pc,                \* its position
  result,            \* what it returned: "True", "False", "None", or Raised; Unset while running
  auto_approve,      \* argument of apply and destroy
  delete_change_set, \* argument of plan
  output_type,       \* argument of plan
  template_valid,    \* whether the template passes validate_template
  stack_status,      \* the local variable stack_status of apply and destroy
  response,          \* what input() returned, Unset when no prompt was read
  change_set,        \* plan's local change_set: its Status, StatusReason and Changes
  template_dict,     \* plan's local template_dict: its Resources in template order
  calls,             \* the create/update/delete stack calls this invocation issued, with their answers
  cs_calls,          \* the change set calls this invocation issued
  firstAbsent,       \* the invocation's first status query saw no stack
  gate,              \* the status the completeness check before the mutating call saw
  lastCheck,         \* the status the latest completeness check of the polling loop saw
  sawAbsent,         \* a status query after the mutating call saw no stack
  slept,             \* the invocation slept
  reasoned,          \* reason() was called
  logged,            \* the log lines of the invocation: listings, verdicts on the change set
  parameter_files,   \* argument of _load_parameter_files: the files' mappings in order
  loaded,            \* what _load_parameter_files returned, empty before the call
  described,         \* what describe_stacks answered to a series of status queries
  classified,        \* what _get_stack_status and _stack_is_complete returned for each
  time_delta,        \* argument of _fmt_timedelta: a timedelta's days and seconds
  duration,          \* what _fmt_timedelta returned, empty before the call
  events,            \* the StackEvents describe_stack_events answered, in server order
  reported,          \* the events reason() logged, in order
  parameters_dict,   \* argument of _create_cfn_parameters: the mapping's items in key order
  cfn_parameters,    \* what _create_cfn_parameters returned, empty before the call
  now,               \* the clock, in readings after the start
  planner,           \* each concurrent plan's position
  change_set_name,   \* each concurrent plan's local change_set_name, empty before it is set
  change_sets        \* the names of the change sets the service holds for the stack

env == <<remote, others, faults, cs, cs_reason>>
args == <<auto_approve, delete_change_set, output_type, template_valid>>
locals == <<stack_status, response, change_set, template_dict>>
seen == <<calls, cs_calls, firstAbsent, gate, lastCheck, sawAbsent, slept, reasoned, logged>>
naming == <<now, planner, change_set_name, change_sets>>
pure == <<parameter_files, loaded, described, classified, time_delta, duration,
          events, reported, parameters_dict, cfn_parameters,
          now, planner, change_set_name, change_sets>>
vars == <<remote, others, faults, cs, cs_reason, invocations, op, pc, result,
          auto_approve, delete_change_set, output_type, template_valid,
          stack_status, response, change_set, template_dict,
          calls, cs_calls, firstAbsent, gate, lastCheck, sawAbsent, slept, reasoned, logged,
          parameter_files, loaded, described, classified, time_delta, duration,
          events, reported, parameters_dict, cfn_parameters,
          now, planner, change_set_name, change_sets>>

\* A response of the service: raised with a message, or a value.
Ok(status) == [raised |-> FALSE, msg |-> "", status |-> status, fault |-> FALSE]
Err(msg) == [raised |-> TRUE, msg |-> msg, status |-> None, fault |-> FALSE]

\* Any call may fail for a reason of its own.
Fault == IF faults < MaxFaults
         THEN {[raised |-> TRUE, msg |-> "Rate exceeded", status |-> None, fault |-> TRUE]}
         ELSE {}

describe_stacks ==
  Fault \cup {IF remote = None THEN Err("Stack with id sampleStack does not exist")
                               ELSE Ok(remote)}

create_stack ==
  Fault \cup {IF remote = None THEN Ok("CREATE_IN_PROGRESS")
                               ELSE Err("Stack [sampleStack] already exists")}

Updatable == {"CREATE_COMPLETE", "UPDATE_COMPLETE", "UPDATE_ROLLBACK_COMPLETE"}

update_stack ==
  Fault \cup (IF remote = None THEN {Err("Stack with id sampleStack does not exist")}
              ELSE IF remote \in Updatable
                   THEN {Ok("UPDATE_IN_PROGRESS"), Err("No updates are to be performed.")}
                   ELSE {Err("Stack:sampleStack is in a state that can not be updated")})

delete_stack ==
  Fault \cup {IF remote = None THEN Ok(None) ELSE Ok("DELETE_IN_PROGRESS")}

\* describe_stack_events, as reason() calls it: it raises for a missing stack
describe_stack_events ==
  Fault \cup {IF remote = None THEN Err("Stack with id sampleStack does not exist")
                               ELSE Ok(remote)}

\* describe_stack_resources and describe_stacks, as the success report of
\* apply calls them: a missing stack is handled, any other error is raised
describe_for_report == Fault \cup {Ok(remote)}

\* The stack after a mutating call answered resp.
After(resp) == IF resp.raised THEN remote ELSE resp.status

Charge(resp) == IF resp.fault THEN faults + 1 ELSE faults

\* ------------------------------------------------------------- the helpers
\* Mutant: every error of describe_stacks is taken for a missing stack.
_get_stack_status_any_error(resp) ==
  IF resp.raised THEN None ELSE resp.status

\* the status, None when the stack does not exist; any other error is re-raised
_get_stack_status(resp) ==
  IF resp.raised
  THEN IF In(Str["does not exist"], Str[resp.msg]) THEN None ELSE Raised
  ELSE resp.status

\* Mutant: any stack that exists counts as complete (the suffix test is lost).
_stack_is_complete_any(resp) ==
  LET status == _get_stack_status(resp) IN status # None /\ status # Raised

\* Mutant: "COMPLETE" or "FAILED" anywhere in the status, not at its end.
_stack_is_complete_substr(resp) ==
  LET status == _get_stack_status(resp) IN
    IF status = None \/ status = Raised THEN FALSE
    ELSE In(Str["COMPLETE"], Str[status]) \/ In(Str["FAILED"], Str[status])

\* for a response that _get_stack_status does not re-raise
_stack_is_complete(resp) ==
  LET status == _get_stack_status(resp) IN
    IF status = None \/ status = Raised THEN FALSE
    ELSE \/ Suffix(Str[status], 9) = Str["_COMPLETE"]
         \/ Suffix(Str[status], 7) = Str["_FAILED"]

\* Mutant: only a typed "no" declines.
Approved_unless_no(r) == Lower(Str[r]) # Str["no"]

\* response.lower() != "yes" is false
Approved(r) == Lower(Str[r]) = Str["yes"]

\* "FAILED" in stack_status or "ROLLBACK" in stack_status
FailedOrRollback(status) ==
  In(Str["FAILED"], Str[status]) \/ In(Str["ROLLBACK"], Str[status])

\* ------------------------------------------------------- the remote service
\* The service moves a stack on by itself.
Progress(status) ==
  CASE status = "CREATE_IN_PROGRESS" -> {"CREATE_COMPLETE", "CREATE_FAILED", "ROLLBACK_IN_PROGRESS"}
    [] status = "ROLLBACK_IN_PROGRESS" -> {"ROLLBACK_COMPLETE", "ROLLBACK_FAILED"}
    [] status = "DELETE_IN_PROGRESS" -> {None, "DELETE_FAILED"}
    [] status = "UPDATE_IN_PROGRESS" ->
         {"UPDATE_COMPLETE_CLEANUP_IN_PROGRESS", "UPDATE_ROLLBACK_IN_PROGRESS", "UPDATE_FAILED"}
    [] status = "UPDATE_COMPLETE_CLEANUP_IN_PROGRESS" -> {"UPDATE_COMPLETE"}
    [] status = "UPDATE_ROLLBACK_IN_PROGRESS" ->
         {"UPDATE_ROLLBACK_COMPLETE_CLEANUP_IN_PROGRESS", "UPDATE_ROLLBACK_FAILED"}
    [] status = "UPDATE_ROLLBACK_COMPLETE_CLEANUP_IN_PROGRESS" -> {"UPDATE_ROLLBACK_COMPLETE"}
    [] OTHER -> {}

\* (a step of the service or of another actor between two invocations is
\* the same step taken right after the next one begins, before its first read)
Running == pc \notin {"idle", "done"}

RemoteProgress ==
  /\ Running
  /\ \E next \in Progress(remote) : remote' = next
  /\ UNCHANGED <<others, faults, cs, cs_reason, invocations, op, pc, result>>
  /\ UNCHANGED <<args, locals, seen>>
  /\ UNCHANGED pure

\* Another actor creates, updates or deletes the same stack.
OtherActor ==
  /\ Running
  /\ others < MaxOthers
  /\ \E resp \in create_stack \cup update_stack \cup delete_stack :
       /\ ~resp.raised
       /\ resp.status # remote
       /\ remote' = resp.status
  /\ others' = others + 1
  /\ UNCHANGED <<faults, cs, cs_reason, invocations, op, pc, result>>
  /\ UNCHANGED <<args, locals, seen>>
  /\ UNCHANGED pure

\* No plan is running beside the operation: the clock stands at its start and
\* the service holds no change set by name.
Plans == 1..MaxPlans

NoPlans ==
  /\ now = 0
  /\ planner = [p \in Plans |-> "idle"]
  /\ change_set_name = [p \in Plans |-> <<>>]
  /\ change_sets = {}

\* ------------------------------------------------------------------- Init
Init ==
  /\ remote \in Statuses \cup {None}
  /\ others = 0
  /\ faults = 0
  /\ cs = "NONE"
  /\ cs_reason = ""
  /\ invocations = 0
  /\ op = "none"
  /\ pc = "idle"
  /\ result = Unset
  /\ auto_approve = FALSE
  /\ delete_change_set = TRUE
  /\ output_type = "text"
  /\ template_valid = TRUE
  /\ stack_status = Unset
  /\ response = Unset
  /\ change_set = [Status |-> Unset, StatusReason |-> Unset]
  /\ template_dict = <<>>
  /\ calls = <<>>
  /\ cs_calls = <<>>
  /\ firstAbsent = FALSE
  /\ gate = Unset
  /\ lastCheck = Unset
  /\ sawAbsent = FALSE
  /\ slept = FALSE
  /\ reasoned = FALSE
  /\ logged = <<>>
  /\ parameter_files = <<>>
  /\ loaded = <<>>
  /\ described = <<>>
  /\ classified = <<>>
  /\ time_delta = [days |-> 0, seconds |-> 0]
  /\ duration = <<>>
  /\ events = <<>>
  /\ reported = <<>>
  /\ parameters_dict = <<>>
  /\ cfn_parameters = <<>>
  /\ NoPlans

\* A new invocation starts with nothing assigned and nothing seen, and with
\* no change set of its own.
Fresh ==
  /\ cs' = "NONE"
  /\ cs_reason' = ""
  /\ result' = Unset
  /\ stack_status' = Unset
  /\ response' = Unset
  /\ change_set' = [Status |-> Unset, StatusReason |-> Unset]
  /\ template_dict' = <<>>
  /\ calls' = <<>>
  /\ cs_calls' = <<>>
  /\ firstAbsent' = FALSE
  /\ gate' = Unset
  /\ lastCheck' = Unset
  /\ sawAbsent' = FALSE
  /\ slept' = FALSE
  /\ reasoned' = FALSE
  /\ logged' = <<>>

\* main: return 0 if result is True else 1, handed to sys.exit
main_unless_false(value) == IF value = "False" THEN 1 ELSE 0

main(value) == IF value = "True" THEN 0 ELSE 1

\* the exit code of the invocation that returned
exit_code == main(result)

\* return value / raise
Return(value) == pc' = "done" /\ result' = value

\* ------------------------------------------------------------------ apply
ApplyBegin ==
  /\ pc \in {"idle", "done"}
  /\ invocations < MaxInvocations
  /\ invocations' = invocations + 1
  /\ op' = "apply"
  /\ pc' = "a_status"
  /\ auto_approve' \in BOOLEAN
  /\ delete_change_set' = TRUE
  /\ output_type' = "text"
  /\ template_valid' = TRUE
  /\ Fresh
  /\ UNCHANGED <<remote, others, faults>>
  /\ UNCHANGED pure

\* stack_status = _get_stack_status(...); if stack_status is None
A_GetStatus ==
  /\ pc = "a_status"
  /\ \E resp \in describe_stacks :
       /\ faults' = Charge(resp)
       /\ IF _get_stack_status(resp) = Raised
          THEN Return(Raised) /\ UNCHANGED <<stack_status, firstAbsent>>
          ELSE /\ stack_status' = _get_stack_status(resp)
               /\ firstAbsent' = (remote = None)
               /\ result' = result
               /\ pc' = IF _get_stack_status(resp) = None THEN "a_create_confirm" ELSE "a_gate"
  /\ UNCHANGED <<remote, others, cs, cs_reason, invocations, op, args>>
  /\ UNCHANGED <<response, change_set, calls, cs_calls, gate, lastCheck, sawAbsent, slept, reasoned>>
  /\ UNCHANGED logged
  /\ UNCHANGED template_dict
  /\ UNCHANGED pure

\* except Exception as e: ...; logger.error(e)
LogError(resp) == [line |-> "error", e |-> resp.msg]

\* the prompt of apply and destroy: on to the mutating call, or return False
Confirm(at, next) ==
  /\ pc = at
  /\ IF auto_approve
     THEN pc' = next /\ UNCHANGED <<response, result>>
     ELSE \E r \in Responses :
            /\ response' = r
            /\ IF Approved(r) THEN pc' = next /\ result' = result
                              ELSE Return("False")
  /\ UNCHANGED <<env, invocations, op, args, stack_status, change_set, seen>>
  /\ UNCHANGED template_dict
  /\ UNCHANGED pure

A_CreateConfirm == Confirm("a_create_confirm", "a_create")

\* cfn_client.create_stack(...)
A_Create ==
  /\ pc = "a_create"
  /\ \E resp \in create_stack :
       /\ faults' = Charge(resp)
       /\ calls' = Append(calls, [kind |-> "create", at |-> remote, ok |-> ~resp.raised,
                               msg |-> resp.msg])
       /\ remote' = After(resp)
       /\ logged' = IF resp.raised THEN Append(logged, LogError(resp)) ELSE logged
       /\ IF resp.raised THEN Return("False") ELSE pc' = "a_poll" /\ result' = result
  /\ UNCHANGED <<others, cs, cs_reason, invocations, op, args, locals>>
  /\ UNCHANGED <<cs_calls, firstAbsent, gate, lastCheck, sawAbsent, slept, reasoned>>
  /\ UNCHANGED pure

\* elif _stack_is_complete(...): ... else: return False
A_Gate ==
  /\ pc = "a_gate"
  /\ \E resp \in describe_stacks :
       /\ faults' = Charge(resp)
       /\ IF _get_stack_status(resp) = Raised
          THEN Return(Raised) /\ gate' = gate
          ELSE /\ gate' = remote
               /\ IF _stack_is_complete(resp)
                  THEN pc' = "a_update_confirm" /\ result' = result
                  ELSE Return("False")
  /\ UNCHANGED <<remote, others, cs, cs_reason, invocations, op, args, locals>>
  /\ UNCHANGED <<calls, cs_calls, firstAbsent, lastCheck, sawAbsent, slept, reasoned>>
  /\ UNCHANGED logged
  /\ UNCHANGED pure

A_UpdateConfirm == Confirm("a_update_confirm", "a_update")

\* cfn_client.update_stack(...)
A_Update ==
  /\ pc = "a_update"
  /\ \E resp \in update_stack :
       /\ faults' = Charge(resp)
       /\ calls' = Append(calls, [kind |-> "update", at |-> remote, ok |-> ~resp.raised,
                               msg |-> resp.msg])
       /\ remote' = After(resp)
       /\ IF resp.raised /\ ~In(Str["No updates are to be performed"], Str[resp.msg])
          THEN Return("False") /\ logged' = Append(logged, LogError(resp))
          ELSE pc' = "a_poll" /\ result' = result /\ logged' = logged
  /\ UNCHANGED <<others, cs, cs_reason, invocations, op, args, locals>>
  /\ UNCHANGED <<cs_calls, firstAbsent, gate, lastCheck, sawAbsent, slept, reasoned>>
  /\ UNCHANGED pure

\* while not _stack_is_complete(...)
PollCheck(at, sleep, after) ==
  /\ pc = at
  /\ \E resp \in describe_stacks :
       /\ faults' = Charge(resp)
       /\ IF _get_stack_status(resp) = Raised
          THEN Return(Raised) /\ UNCHANGED <<lastCheck, sawAbsent>>
          ELSE /\ lastCheck' = remote
               /\ sawAbsent' = (sawAbsent \/ remote = None)
               /\ result' = result
               /\ pc' = IF _stack_is_complete(resp) THEN after ELSE sleep
  /\ UNCHANGED <<remote, others, cs, cs_reason, invocations, op, args, locals>>
  /\ UNCHANGED <<calls, cs_calls, firstAbsent, gate, slept, reasoned>>
  /\ UNCHANGED logged
  /\ UNCHANGED pure

A_PollCheck == PollCheck("a_poll", "a_sleep", "a_classify")

\* Mutant: the loop is an if, its body runs once and apply goes on.
A_Sleep_once ==
  /\ pc = "a_sleep"
  /\ slept' = TRUE
  /\ \E resp \in describe_stacks :
       /\ faults' = Charge(resp)
       /\ IF _get_stack_status(resp) = Raised
          THEN Return(Raised) /\ UNCHANGED <<stack_status, sawAbsent>>
          ELSE /\ stack_status' = _get_stack_status(resp)
               /\ sawAbsent' = (sawAbsent \/ remote = None)
               /\ pc' = "a_classify"
               /\ result' = result
  /\ UNCHANGED <<remote, others, cs, cs_reason, invocations, op, args>>
  /\ UNCHANGED <<response, change_set, calls, cs_calls, firstAbsent, gate, lastCheck, reasoned>>
  /\ UNCHANGED logged
  /\ UNCHANGED template_dict
  /\ UNCHANGED pure

\* time.sleep(15); stack_status = _get_stack_status(...)
A_Sleep ==
  /\ pc = "a_sleep"
  /\ slept' = TRUE
  /\ \E resp \in describe_stacks :
       /\ faults' = Charge(resp)
       /\ IF _get_stack_status(resp) = Raised
          THEN Return(Raised) /\ UNCHANGED <<stack_status, sawAbsent>>
          ELSE /\ stack_status' = _get_stack_status(resp)
               /\ sawAbsent' = (sawAbsent \/ remote = None)
               /\ pc' = "a_poll"
               /\ result' = result
  /\ UNCHANGED <<remote, others, cs, cs_reason, invocations, op, args>>
  /\ UNCHANGED <<response, change_set, calls, cs_calls, firstAbsent, gate, lastCheck, reasoned>>
  /\ UNCHANGED logged
  /\ UNCHANGED template_dict
  /\ UNCHANGED pure

\* After the loop: "FAILED" in None raises TypeError; otherwise the failure
\* report through reason(), which re-raises what describe_stack_events
\* raises, or the success report through _get_stack_resources() and output()
A_Classify ==
  /\ pc = "a_classify"
  /\ IF stack_status = None
     THEN Return(Raised) /\ UNCHANGED <<faults, reasoned>>
     ELSE IF FailedOrRollback(stack_status)
     THEN \E resp \in describe_stack_events :
            /\ faults' = Charge(resp)
            /\ reasoned' = TRUE
            /\ Return(IF resp.raised THEN Raised ELSE "False")
     ELSE \E resp \in describe_for_report :
            /\ faults' = Charge(resp)
            /\ reasoned' = reasoned
            /\ Return(IF resp.raised THEN Raised ELSE "True")
  /\ UNCHANGED <<remote, others, cs, cs_reason, invocations, op, args, locals>>
  /\ UNCHANGED <<calls, cs_calls, firstAbsent, gate, lastCheck, sawAbsent, slept>>
  /\ UNCHANGED logged
  /\ UNCHANGED pure

\* ---------------------------------------------------------------- destroy
DestroyBegin ==
  /\ pc \in {"idle", "done"}
  /\ invocations < MaxInvocations
  /\ invocations' = invocations + 1
  /\ op' = "destroy"
  /\ pc' = "d_status"
  /\ auto_approve' \in BOOLEAN
  /\ delete_change_set' = TRUE
  /\ output_type' = "text"
  /\ template_valid' = TRUE
  /\ Fresh
  /\ UNCHANGED <<remote, others, faults>>
  /\ UNCHANGED pure

\* stack_status = _get_stack_status(...)
D_GetStatus ==
  /\ pc = "d_status"
  /\ \E resp \in describe_stacks :
       /\ faults' = Charge(resp)
       /\ IF _get_stack_status(resp) = Raised
          THEN Return(Raised) /\ UNCHANGED <<stack_status, firstAbsent>>
          ELSE /\ stack_status' = _get_stack_status(resp)
               /\ firstAbsent' = (remote = None)
               /\ pc' = "d_gate"
               /\ result' = result
  /\ UNCHANGED <<remote, others, cs, cs_reason, invocations, op, args>>
  /\ UNCHANGED <<response, change_set, calls, cs_calls, gate, lastCheck, sawAbsent, slept, reasoned>>
  /\ UNCHANGED logged
  /\ UNCHANGED template_dict
  /\ UNCHANGED pure

\* if not _stack_is_complete(...): return False
D_Gate ==
  /\ pc = "d_gate"
  /\ \E resp \in describe_stacks :
       /\ faults' = Charge(resp)
       /\ IF _get_stack_status(resp) = Raised
          THEN Return(Raised) /\ gate' = gate
          ELSE /\ gate' = remote
               /\ IF _stack_is_complete(resp)
                  THEN pc' = "d_resources" /\ result' = result
                  ELSE Return("False")
  /\ UNCHANGED <<remote, others, cs, cs_reason, invocations, op, args, locals>>
  /\ UNCHANGED <<calls, cs_calls, firstAbsent, lastCheck, sawAbsent, slept, reasoned>>
  /\ UNCHANGED logged
  /\ UNCHANGED pure

\* resource_count = len(_get_stack_resources(...))
D_Resources ==
  /\ pc = "d_resources"
  /\ \E resp \in describe_for_report :
       /\ faults' = Charge(resp)
       /\ IF resp.raised THEN Return(Raised) ELSE pc' = "d_confirm" /\ result' = result
  /\ UNCHANGED <<remote, others, cs, cs_reason, invocations, op, args, locals, seen>>
  /\ UNCHANGED pure

D_Confirm == Confirm("d_confirm", "d_delete")

\* Mutant: the exception of delete_stack is logged and destroy goes on to poll.
D_Delete_goes_on ==
  /\ pc = "d_delete"
  /\ \E resp \in delete_stack :
       /\ faults' = Charge(resp)
       /\ calls' = Append(calls, [kind |-> "delete", at |-> remote, ok |-> ~resp.raised,
                               msg |-> resp.msg])
       /\ remote' = After(resp)
       /\ logged' = IF resp.raised THEN Append(logged, LogError(resp)) ELSE logged
       /\ pc' = "d_poll" /\ result' = result
  /\ UNCHANGED <<others, cs, cs_reason, invocations, op, args, locals>>
  /\ UNCHANGED <<cs_calls, firstAbsent, gate, lastCheck, sawAbsent, slept, reasoned>>
  /\ UNCHANGED pure

\* cfn_client.delete_stack(StackName=stack_name)
D_Delete ==
  /\ pc = "d_delete"
  /\ \E resp \in delete_stack :
       /\ faults' = Charge(resp)
       /\ calls' = Append(calls, [kind |-> "delete", at |-> remote, ok |-> ~resp.raised,
                               msg |-> resp.msg])
       /\ remote' = After(resp)
       /\ logged' = IF resp.raised THEN Append(logged, LogError(resp)) ELSE logged
       /\ IF resp.raised THEN Return("False") ELSE pc' = "d_poll" /\ result' = result
  /\ UNCHANGED <<others, cs, cs_reason, invocations, op, args, locals>>
  /\ UNCHANGED <<cs_calls, firstAbsent, gate, lastCheck, sawAbsent, slept, reasoned>>
  /\ UNCHANGED pure

D_PollCheck == PollCheck("d_poll", "d_sleep", "d_classify")

\* time.sleep(15); stack_status = _get_stack_status(...); if not stack_status: break
D_Sleep ==
  /\ pc = "d_sleep"
  /\ slept' = TRUE
  /\ \E resp \in describe_stacks :
       /\ faults' = Charge(resp)
       /\ IF _get_stack_status(resp) = Raised
          THEN Return(Raised) /\ UNCHANGED <<stack_status, sawAbsent>>
          ELSE /\ stack_status' = _get_stack_status(resp)
               /\ sawAbsent' = (sawAbsent \/ remote = None)
               /\ pc' = IF _get_stack_status(resp) = None THEN "d_classify" ELSE "d_poll"
               /\ result' = result
  /\ UNCHANGED <<remote, others, cs, cs_reason, invocations, op, args>>
  /\ UNCHANGED <<response, change_set, calls, cs_calls, firstAbsent, gate, lastCheck, reasoned>>
  /\ UNCHANGED logged
  /\ UNCHANGED template_dict
  /\ UNCHANGED pure

\* if stack_status and ("FAILED" in stack_status or "ROLLBACK" in stack_status):
\* reason(), which re-raises what describe_stack_events raises, and
\* return False; else return True
D_Classify ==
  /\ pc = "d_classify"
  /\ IF stack_status # None /\ FailedOrRollback(stack_status)
     THEN \E resp \in describe_stack_events :
            /\ faults' = Charge(resp)
            /\ reasoned' = TRUE
            /\ Return(IF resp.raised THEN Raised ELSE "False")
     ELSE Return("True") /\ UNCHANGED <<faults, reasoned>>
  /\ UNCHANGED <<remote, others, cs, cs_reason, invocations, op, args, locals>>
  /\ UNCHANGED <<calls, cs_calls, firstAbsent, gate, lastCheck, sawAbsent, slept>>
  /\ UNCHANGED logged
  /\ UNCHANGED pure

\* ------------------------------------------------------------------- plan
\* The reasons a change set fails with.
CsReasons == {"The submitted information didn't contain changes. Submit different information to create a change set.",
              "No updates are to be performed.",
              "Parameters: [Parm1] must have values"}

\* template_dict['Resources'] of the templates planned: an ordered mapping
\* from logical id to the resource's Type; a valid template declares at least
\* one resource.
ResourceTypes == [Bucket |-> "AWS::S3::Bucket", Topic |-> "AWS::SNS::Topic",
                  Queue |-> "AWS::SQS::Queue"]

Templates ==
  LET Orders == UNION {[1..n -> DOMAIN ResourceTypes] : n \in 1..MaxResources}
      Distinct == {o \in Orders : \A i, j \in DOMAIN o : i # j => o[i] # o[j]}
  IN {[i \in DOMAIN o |-> [id |-> o[i], Type |-> ResourceTypes[o[i]]]] : o \in Distinct}

\* i = 0; for resource in template_dict['Resources']: one line with i + 1,
\* 'Create', the key and its Type; i += 1
RECURSIVE ListResources_from0(_, _)
ListResources_from0(resources, i) ==
  IF i = Len(resources) THEN <<>>
  ELSE <<[line |-> "resource", n |-> i, action |-> "Create",
          logical_id |-> resources[i + 1].id,
          resource_type |-> resources[i + 1].Type]>> \o ListResources_from0(resources, i + 1)

RECURSIVE ListResources(_, _)
ListResources(resources, i) ==
  IF i = Len(resources) THEN <<>>
  ELSE <<[line |-> "resource", n |-> i + 1, action |-> "Create",
          logical_id |-> resources[i + 1].id,
          resource_type |-> resources[i + 1].Type]>> \o ListResources(resources, i + 1)

\* The branch of plan for a stack that is "not yet deployed": what it logs
\* and what it returns. yaml logs the template body and returns True; json
\* calls to_json() on the dict yaml.load returned, which raises
\* AttributeError; text lists the resources and runs off the end of the
\* function, returning None; anything else returns False.
NotDeployed_text(type, resources) ==
  IF type = "yaml" THEN [logged |-> <<[line |-> "template_body"]>>, result |-> "True"]
  ELSE IF type = "json" THEN [logged |-> <<>>, result |-> Raised]
  ELSE [logged |-> ListResources(resources, 0), result |-> "None"]

NotDeployed(type, resources) ==
  IF type \in {"yaml", "json"}
  THEN IF type = "yaml" THEN [logged |-> <<[line |-> "template_body"]>>, result |-> "True"]
       ELSE [logged |-> <<>>, result |-> Raised]
  ELSE IF type \in {"text"}
  THEN [logged |-> ListResources(resources, 0), result |-> "None"]
  ELSE [logged |-> <<[line |-> "invalid output type"]>>, result |-> "False"]

\* str() of a list of strings, as the scope of a change is formatted
RECURSIVE Items(_)
Items(list) ==
  IF list = <<>> THEN <<>>
  ELSE <<"'">> \o Str[Head(list)] \o <<"'">>
       \o (IF Len(list) > 1 THEN <<",", " ">> ELSE <<>>) \o Items(Tail(list))

str(list) == <<"[">> \o Items(list) \o <<"]">>

\* The ResourceChange entries a change set may hold; Add carries no physical
\* id and only Modify carries a Replacement.
ChangePool ==
  {[Action |-> "Add", LogicalResourceId |-> "Topic", PhysicalResourceId |-> None,
    ResourceType |-> "AWS::SNS::Topic", Scope |-> <<>>, Replacement |-> None],
   [Action |-> "Modify", LogicalResourceId |-> "Bucket",
    PhysicalResourceId |-> "samplestack-bucket-1abc",
    ResourceType |-> "AWS::S3::Bucket", Scope |-> <<"Properties">>, Replacement |-> "False"],
   [Action |-> "Modify", LogicalResourceId |-> "Queue",
    PhysicalResourceId |-> "samplestack-queue-2def",
    ResourceType |-> "AWS::SQS::Queue", Scope |-> <<"Properties", "Tags">>,
    Replacement |-> "True"],
   [Action |-> "Remove", LogicalResourceId |-> "Table",
    PhysicalResourceId |-> "samplestack-table-3ghi",
    ResourceType |-> "AWS::DynamoDB::Table", Scope |-> <<>>, Replacement |-> None]}

\* change_set['Changes'] of a created change set: each resource at most once
ChangeLists ==
  LET Lists == UNION {[1..n -> ChangePool] : n \in 0..MaxChanges}
  IN {l \in Lists : \A i, j \in DOMAIN l : i # j => l[i] # l[j]}

\* for i in range(len(change_set['Changes'])): one line with i + 1 and the
\* fields of the change; replacement and resource_id are read only when the
\* action is not in ['Add', 'Remove'] and are '' otherwise
RECURSIVE ListChanges_add(_, _)
ListChanges_add(changes, i) ==
  IF i = Len(changes) THEN <<>>
  ELSE LET rc == changes[i + 1]
           blank == rc.Action \in {"Add"}
       IN <<[line |-> "change", n |-> i + 1, action |-> rc.Action,
             logical_id |-> rc.LogicalResourceId,
             resource_id |-> IF blank THEN "" ELSE rc.PhysicalResourceId,
             resource_type |-> rc.ResourceType,
             scope |-> str(rc.Scope),
             replacement |-> IF blank THEN "" ELSE rc.Replacement]>>
          \o ListChanges_add(changes, i + 1)

RECURSIVE ListChanges(_, _)
ListChanges(changes, i) ==
  IF i = Len(changes) THEN <<>>
  ELSE LET rc == changes[i + 1]
           blank == rc.Action \in {"Add", "Remove"}
       IN <<[line |-> "change", n |-> i + 1, action |-> rc.Action,
             logical_id |-> rc.LogicalResourceId,
             resource_id |-> IF blank THEN "" ELSE rc.PhysicalResourceId,
             resource_type |-> rc.ResourceType,
             scope |-> str(rc.Scope),
             replacement |-> IF blank THEN "" ELSE rc.Replacement]>>
          \o ListChanges(changes, i + 1)

validate_template_lenient == Fault \cup {Ok(None)}

validate_template ==
  Fault \cup {IF template_valid THEN Ok(None)
                                ELSE Err("Template format error: unsupported structure")}

create_change_set ==
  Fault \cup {IF remote = None THEN Err("Stack with id sampleStack does not exist")
              ELSE IF remote \in Updatable THEN Ok("CREATE_PENDING")
              ELSE Err("Stack:sampleStack is in a state that can not be updated")}

describe_change_set == Fault \cup {Ok(cs)}

delete_change_set_call == Fault \cup {Ok("DELETED")}

\* The service computes the change set.
ChangeSetProgress ==
  /\ Running
  /\ \/ cs = "CREATE_PENDING" /\ cs' = "CREATE_IN_PROGRESS" /\ cs_reason' = cs_reason
     \/ cs = "CREATE_IN_PROGRESS" /\ cs' = "CREATE_COMPLETE" /\ cs_reason' = cs_reason
     \/ cs = "CREATE_IN_PROGRESS" /\ cs' = "FAILED" /\ cs_reason' \in CsReasons
  /\ UNCHANGED <<remote, others, faults, invocations, op, pc, result>>
  /\ UNCHANGED <<args, locals, seen>>
  /\ UNCHANGED pure

PlanBegin ==
  /\ pc \in {"idle", "done"}
  /\ invocations < MaxInvocations
  /\ invocations' = invocations + 1
  /\ op' = "plan"
  /\ pc' = "p_validate"
  /\ delete_change_set' \in BOOLEAN
  /\ output_type' \in OutputTypes
  /\ template_valid' \in BOOLEAN
  /\ auto_approve' = FALSE
  /\ Fresh
  /\ UNCHANGED <<remote, others, faults>>
  /\ UNCHANGED pure

\* if _template_isvalid(...): ... else: return False
P_Validate ==
  /\ pc = "p_validate"
  /\ \E resp \in validate_template :
       /\ faults' = Charge(resp)
       /\ IF ~resp.raised THEN pc' = "p_gate" /\ result' = result
          ELSE IF In(Str["Template format error"], Str[resp.msg]) THEN Return("False")
          ELSE Return(Raised)
  /\ UNCHANGED <<remote, others, cs, cs_reason, invocations, op, args, locals, seen>>
  /\ UNCHANGED pure

\* if not _stack_is_complete(...): the stack is "not yet deployed" and the
\* output type decides; else the change set is created. The resources of the
\* template, loaded at the top of plan, are read by the text listing alone:
\* they are drawn where they are read.
P_Gate ==
  /\ pc = "p_gate"
  /\ \E resp \in describe_stacks :
       /\ faults' = Charge(resp)
       /\ IF _get_stack_status(resp) = Raised
          THEN Return(Raised) /\ UNCHANGED <<gate, logged, template_dict>>
          ELSE /\ gate' = remote
               /\ IF _stack_is_complete(resp)
                  THEN pc' = "p_create" /\ UNCHANGED <<result, logged, template_dict>>
                  ELSE /\ template_dict' \in IF output_type \in {"text"} THEN Templates ELSE {<<>>}
                       /\ LET out == NotDeployed(output_type, template_dict')
                          IN Return(out.result) /\ logged' = out.logged
  /\ UNCHANGED <<remote, others, cs, cs_reason, invocations, op, args>>
  /\ UNCHANGED <<stack_status, response, change_set>>
  /\ UNCHANGED <<calls, cs_calls, firstAbsent, lastCheck, sawAbsent, slept, reasoned>>
  /\ UNCHANGED pure

\* change_set_id = cfn_client.create_change_set(...)['Id']
P_CreateChangeSet ==
  /\ pc = "p_create"
  /\ \E resp \in create_change_set :
       /\ faults' = Charge(resp)
       /\ cs_calls' = Append(cs_calls, [kind |-> "create", ok |-> ~resp.raised])
       /\ logged' = IF resp.raised THEN Append(logged, LogError(resp)) ELSE logged
       /\ IF resp.raised
          THEN Return("False") /\ UNCHANGED <<cs, cs_reason>>
          ELSE cs' = resp.status /\ cs_reason' = "" /\ pc' = "p_describe" /\ result' = result
  /\ UNCHANGED <<remote, others, invocations, op, args, locals>>
  /\ UNCHANGED <<calls, firstAbsent, gate, lastCheck, sawAbsent, slept, reasoned>>
  /\ UNCHANGED pure

\* change_set = cfn_client.describe_change_set(ChangeSetName=change_set_id),
\* before the loop and, after time.sleep(5), at the end of its body; the
\* Changes of the response are drawn where they are read, in P_Report
P_Describe ==
  /\ pc \in {"p_describe", "p_sleep"}
  /\ slept' = (slept \/ pc = "p_sleep")
  /\ \E resp \in describe_change_set :
       /\ faults' = Charge(resp)
       /\ IF resp.raised
          THEN Return(Raised) /\ change_set' = change_set
          ELSE /\ change_set' = [Status |-> resp.status, StatusReason |-> cs_reason]
               /\ pc' = "p_loop"
               /\ result' = result
  /\ UNCHANGED <<remote, others, cs, cs_reason, invocations, op, args>>
  /\ UNCHANGED <<stack_status, response, calls, cs_calls, firstAbsent, gate, lastCheck, sawAbsent, reasoned>>
  /\ UNCHANGED logged
  /\ UNCHANGED template_dict
  /\ UNCHANGED pure

\* Mutant: a failed change set is kept too when retention was requested.
P_Loop_retains ==
  /\ pc = "p_loop"
  /\ IF change_set.Status = "CREATE_COMPLETE"
     THEN pc' = "p_report" /\ UNCHANGED <<result, faults, cs, cs_calls, logged>>
     ELSE IF change_set.Status = "FAILED"
     THEN \E resp \in IF delete_change_set THEN delete_change_set_call ELSE {Ok(cs)} :
            /\ faults' = Charge(resp)
            /\ cs_calls' = IF delete_change_set
                           THEN Append(cs_calls, [kind |-> "delete", ok |-> ~resp.raised])
                           ELSE cs_calls
            /\ cs' = IF resp.raised THEN cs ELSE resp.status
            /\ IF In(Str["The submitted information didn't contain changes"],
                     Str[change_set.StatusReason])
               THEN /\ logged' = Append(logged, [line |-> "No Changes Detected for Stack",
                                                  stack_name |-> "sampleStack"])
                    /\ Return(IF resp.raised THEN "False" ELSE "True")
               ELSE /\ logged' = Append(logged, [line |-> "Stack set creation status failed",
                                                  reason |-> change_set.StatusReason])
                    /\ Return("False")
     ELSE pc' = "p_sleep" /\ UNCHANGED <<result, faults, cs, cs_calls, logged>>
  /\ UNCHANGED <<remote, others, cs_reason, invocations, op, args, locals>>
  /\ UNCHANGED <<calls, firstAbsent, gate, lastCheck, sawAbsent, slept, reasoned>>
  /\ UNCHANGED pure

\* Mutant: the loop has no branch for FAILED and sleeps on it too.
P_Loop_ignores_failed ==
  /\ pc = "p_loop"
  /\ pc' = IF change_set.Status = "CREATE_COMPLETE" THEN "p_report" ELSE "p_sleep"
  /\ UNCHANGED <<result, faults, cs, cs_calls, logged>>
  /\ UNCHANGED <<remote, others, cs_reason, invocations, op, args, locals>>
  /\ UNCHANGED <<calls, firstAbsent, gate, lastCheck, sawAbsent, slept, reasoned>>
  /\ UNCHANGED pure

\* while change_set['Status'] != "CREATE_COMPLETE": if FAILED, delete the
\* change set and return (True for no changes unless the delete raises, else
\* False); otherwise sleep and describe again
P_Loop ==
  /\ pc = "p_loop"
  /\ IF change_set.Status = "CREATE_COMPLETE"
     THEN pc' = "p_report" /\ UNCHANGED <<result, faults, cs, cs_calls, logged>>
     ELSE IF change_set.Status = "FAILED"
     THEN \E resp \in delete_change_set_call :
            /\ faults' = Charge(resp)
            /\ cs_calls' = Append(cs_calls, [kind |-> "delete", ok |-> ~resp.raised])
            /\ cs' = IF resp.raised THEN cs ELSE resp.status
            /\ IF In(Str["The submitted information didn't contain changes"],
                     Str[change_set.StatusReason])
               THEN /\ logged' = Append(logged, [line |-> "No Changes Detected for Stack",
                                                  stack_name |-> "sampleStack"])
                    /\ Return(IF resp.raised THEN "False" ELSE "True")
               ELSE /\ logged' = Append(logged, [line |-> "Stack set creation status failed",
                                                  reason |-> change_set.StatusReason])
                    /\ Return("False")
     ELSE pc' = "p_sleep" /\ UNCHANGED <<result, faults, cs, cs_calls, logged>>
  /\ UNCHANGED <<remote, others, cs_reason, invocations, op, args, locals>>
  /\ UNCHANGED <<calls, firstAbsent, gate, lastCheck, sawAbsent, slept, reasoned>>
  /\ UNCHANGED pure

\* Mutant: plan executes the change set it reported.
P_Report_executes ==
  /\ pc = "p_report"
  /\ \E changes \in ChangeLists :
       /\ change_set' = [Status |-> change_set.Status, StatusReason |-> change_set.StatusReason,
                         Changes |-> changes]
       /\ logged' = logged \o ListChanges(changes, 0)
  /\ IF delete_change_set
     THEN \E resp \in delete_change_set_call :
            /\ faults' = Charge(resp)
            /\ cs_calls' = Append(cs_calls, [kind |-> "delete", ok |-> ~resp.raised])
            /\ cs' = IF resp.raised THEN cs ELSE resp.status
            /\ Return(IF resp.raised THEN "False" ELSE "True")
     ELSE Return("True") /\ UNCHANGED <<faults, cs, cs_calls>>
  /\ remote' = IF remote \in Updatable THEN "UPDATE_IN_PROGRESS" ELSE remote
  /\ UNCHANGED <<others, cs_reason, invocations, op, args>>
  /\ UNCHANGED <<stack_status, response, template_dict>>
  /\ UNCHANGED <<calls, firstAbsent, gate, lastCheck, sawAbsent, slept, reasoned>>
  /\ UNCHANGED pure

\* the changes are listed; if delete_change_set: delete it, returning False
\* when that raises; return True
P_Report ==
  /\ pc = "p_report"
  /\ \E changes \in ChangeLists :
       /\ change_set' = [Status |-> change_set.Status, StatusReason |-> change_set.StatusReason,
                         Changes |-> changes]
       /\ logged' = logged \o ListChanges(changes, 0)
  /\ IF delete_change_set
     THEN \E resp \in delete_change_set_call :
            /\ faults' = Charge(resp)
            /\ cs_calls' = Append(cs_calls, [kind |-> "delete", ok |-> ~resp.raised])
            /\ cs' = IF resp.raised THEN cs ELSE resp.status
            /\ Return(IF resp.raised THEN "False" ELSE "True")
     ELSE Return("True") /\ UNCHANGED <<faults, cs, cs_calls>>
  /\ UNCHANGED <<remote, others, cs_reason, invocations, op, args>>
  /\ UNCHANGED <<stack_status, response, template_dict>>
  /\ UNCHANGED <<calls, firstAbsent, gate, lastCheck, sawAbsent, slept, reasoned>>
  /\ UNCHANGED pure

\* ------------------------------------------- list, parameters, output, reason
\* The arguments and locals a read-only operation does not have.
ReportArgs ==
  /\ auto_approve' = FALSE
  /\ delete_change_set' = TRUE
  /\ output_type' = "text"
  /\ template_valid' = TRUE

\* if not _stack_is_complete(...): the status is queried again for the error
\* line and the operation returns False
ReportGate(at, status, next) ==
  /\ pc = at
  /\ \E resp \in describe_stacks :
       /\ faults' = Charge(resp)
       /\ IF _get_stack_status(resp) = Raised
          THEN Return(Raised) /\ gate' = gate
          ELSE /\ gate' = remote
               /\ pc' = IF _stack_is_complete(resp) THEN next ELSE status
               /\ result' = result
  /\ UNCHANGED <<remote, others, cs, cs_reason, invocations, op, args, locals>>
  /\ UNCHANGED <<calls, cs_calls, firstAbsent, lastCheck, sawAbsent, slept, reasoned, logged>>
  /\ UNCHANGED pure

\* logger.error(f"... {_get_stack_status(...)} ..."); return False
ReportStatus(at) ==
  /\ pc = at
  /\ \E resp \in describe_stacks :
       /\ faults' = Charge(resp)
       /\ Return(IF _get_stack_status(resp) = Raised THEN Raised ELSE "False")
  /\ UNCHANGED <<remote, others, cs, cs_reason, invocations, op, args, locals, seen>>
  /\ UNCHANGED pure

\* the header and, for stack in stacks['Stacks'], the line of each stack
StackLines(resp) ==
  <<[line |-> "stack_name stack_status drift_status stack_description"]>>
    \o (IF resp.status = None THEN <<>>
        ELSE <<[line |-> "stack", stack_name |-> "sampleStack", stack_status |-> resp.status]>>)

\* the header and, for parameter in stack['Parameters'], the line of each
ParameterLines(resp) ==
  <<[line |-> "Parameters:"],
    [line |-> "parameter", ParameterKey |-> "Parm1", ParameterValue |-> "Parameter 1"]>>

\* The Outputs of a described stack: the key is missing when it has none.
Outputs == {<<>>, <<[OutputKey |-> "output", OutputValue |-> "tropoform_test_user"]>>}

\* for stack_output in ...: the line of each output
RECURSIVE OutputLines(_)
OutputLines(outputs) ==
  IF outputs = <<>> THEN <<>>
  ELSE <<[line |-> "output", OutputKey |-> Head(outputs).OutputKey,
          OutputValue |-> Head(outputs).OutputValue]>> \o OutputLines(Tail(outputs))

\* try: describe_stacks(...) except Exception: return False; the lines are
\* logged; return True
ReportDescribe(at, responses, report) ==
  /\ pc = at
  /\ \E resp \in responses :
       /\ faults' = Charge(resp)
       /\ logged' = IF resp.raised THEN logged
                    ELSE logged \o (IF report = "parameters" THEN ParameterLines(resp) ELSE StackLines(resp))
       /\ Return(IF resp.raised THEN "False" ELSE "True")
  /\ UNCHANGED <<remote, others, cs, cs_reason, invocations, op, args, locals>>
  /\ UNCHANGED <<calls, cs_calls, firstAbsent, gate, lastCheck, sawAbsent, slept, reasoned>>
  /\ UNCHANGED pure

\* list with a stack name checks that stack; without one it lists them all
ListBegin ==
  /\ pc \in {"idle", "done"}
  /\ invocations < MaxInvocations
  /\ invocations' = invocations + 1
  /\ op' = "list"
  /\ pc' \in {"l_gate", "l_describe_all"}
  /\ ReportArgs
  /\ Fresh
  /\ UNCHANGED <<remote, others, faults>>
  /\ UNCHANGED pure

L_Gate == ReportGate("l_gate", "l_status", "l_describe")

L_Status == ReportStatus("l_status")

L_Describe == ReportDescribe("l_describe", describe_stacks, "stacks")

\* stacks = cfn_client.describe_stacks()
L_DescribeAll == ReportDescribe("l_describe_all", Fault \cup {Ok(remote)}, "stacks")

ParametersBegin ==
  /\ pc \in {"idle", "done"}
  /\ invocations < MaxInvocations
  /\ invocations' = invocations + 1
  /\ op' = "parameters"
  /\ pc' = "m_gate"
  /\ ReportArgs
  /\ Fresh
  /\ UNCHANGED <<remote, others, faults>>
  /\ UNCHANGED pure

M_Gate == ReportGate("m_gate", "m_status", "m_describe")

M_Status == ReportStatus("m_status")

M_Describe == ReportDescribe("m_describe", describe_stacks, "parameters")

OutputBegin ==
  /\ pc \in {"idle", "done"}
  /\ invocations < MaxInvocations
  /\ invocations' = invocations + 1
  /\ op' = "output"
  /\ pc' = "o_gate"
  /\ ReportArgs
  /\ Fresh
  /\ UNCHANGED <<remote, others, faults>>
  /\ UNCHANGED pure

O_Gate == ReportGate("o_gate", "o_status", "o_outputs")

O_Status == ReportStatus("o_status")

\* what _get_stack_outputs returns: a missing stack has no outputs, any
\* other error is raised, a stack without the key 'Outputs' has none
_get_stack_outputs(resp) ==
  IF resp.raised
  THEN IF In(Str["does not exist"], Str[resp.msg]) THEN {<<>>} ELSE {Raised}
  ELSE Outputs

\* logger.info("STACK OUTPUTS:"); for stack_output in _get_stack_outputs(...):
\* the line of each; return True
O_Outputs ==
  /\ pc = "o_outputs"
  /\ \E resp \in describe_stacks :
       /\ faults' = Charge(resp)
       /\ \E outputs \in _get_stack_outputs(resp) :
            IF outputs = Raised
            THEN /\ logged' = Append(logged, [line |-> "STACK OUTPUTS:"])
                 /\ Return(Raised)
            ELSE /\ logged' = Append(logged, [line |-> "STACK OUTPUTS:"]) \o OutputLines(outputs)
                 /\ Return("True")
  /\ UNCHANGED <<remote, others, cs, cs_reason, invocations, op, args, locals>>
  /\ UNCHANGED <<calls, cs_calls, firstAbsent, gate, lastCheck, sawAbsent, slept, reasoned>>
  /\ UNCHANGED pure

ReasonBegin ==
  /\ pc \in {"idle", "done"}
  /\ invocations < MaxInvocations
  /\ invocations' = invocations + 1
  /\ op' = "reason"
  /\ pc' = "r_events"
  /\ ReportArgs
  /\ Fresh
  /\ UNCHANGED <<remote, others, faults>>
  /\ UNCHANGED pure

\* events = _get_failed_stack_events(...), which re-raises; return True
R_Events ==
  /\ pc = "r_events"
  /\ \E resp \in describe_stack_events :
       /\ faults' = Charge(resp)
       /\ Return(IF resp.raised THEN Raised ELSE "True")
  /\ reasoned' = TRUE
  /\ UNCHANGED <<remote, others, cs, cs_reason, invocations, op, args, locals>>
  /\ UNCHANGED <<calls, cs_calls, firstAbsent, gate, lastCheck, sawAbsent, slept, logged>>
  /\ UNCHANGED pure

\* ------------------------------------------------------------------- Next
Next ==
  \/ RemoteProgress
  \/ OtherActor
  \/ ChangeSetProgress
  \/ ApplyBegin
  \/ A_GetStatus
  \/ A_CreateConfirm
  \/ A_Create
  \/ A_Gate
  \/ A_UpdateConfirm
  \/ A_Update
  \/ A_PollCheck
  \/ A_Sleep
  \/ A_Classify
  \/ DestroyBegin
  \/ D_GetStatus
  \/ D_Gate
  \/ D_Resources
  \/ D_Confirm
  \/ D_Delete
  \/ D_PollCheck
  \/ D_Sleep
  \/ D_Classify
  \/ PlanBegin
  \/ P_Validate
  \/ P_Gate
  \/ P_CreateChangeSet
  \/ P_Describe
  \/ P_Loop
  \/ P_Report
  \/ ListBegin
  \/ L_Gate
  \/ L_Status
  \/ L_Describe
  \/ L_DescribeAll
  \/ ParametersBegin
  \/ M_Gate
  \/ M_Status
  \/ M_Describe
  \/ OutputBegin
  \/ O_Gate
  \/ O_Status
  \/ O_Outputs
  \/ ReasonBegin
  \/ R_Events

Spec == Init /\ [][Next]_vars

\* -------------------------------------------------- _load_parameter_files
\* A parameter file, as yaml.load(..., Loader=yaml.BaseLoader) reads it: a
\* flat mapping from keys to strings.
ParameterKeys == {"Parm1", "Parm2"}
ParameterValues == {"Parameter 1", "2"}
ParameterFiles == UNION {[keys -> ParameterValues] : keys \in SUBSET ParameterKeys}
FileLists == UNION {[1..n -> ParameterFiles] : n \in 0..MaxFiles}

\* Mutant: {**data, **result}, the earlier file wins.
Merge_first(result_, data) ==
  [k \in DOMAIN result_ \cup DOMAIN data |-> IF k \in DOMAIN result_ THEN result_[k] ELSE data[k]]

\* result = {**result, **data}
Merge(result_, data) ==
  [k \in DOMAIN result_ \cup DOMAIN data |-> IF k \in DOMAIN data THEN data[k] ELSE result_[k]]

\* for parameter_file in parameter_files: result = {**result, **data}
RECURSIVE LoadEach(_, _)
LoadEach(result_, files) ==
  IF files = <<>> THEN result_
  ELSE LoadEach(Merge(result_, Head(files)), Tail(files))

\* result = dict(); if not parameter_files: return result; ...; return result
_load_parameter_files(files) ==
  IF files = <<>> THEN <<>> ELSE LoadEach(<<>>, files)

\* The operations' variables while a helper is called outside any operation.
AtRest ==
  /\ remote = None
  /\ others = 0
  /\ faults = 0
  /\ cs = "NONE"
  /\ cs_reason = ""
  /\ invocations = 0
  /\ result = Unset
  /\ auto_approve = FALSE
  /\ delete_change_set = TRUE
  /\ output_type = "text"
  /\ template_valid = TRUE
  /\ stack_status = Unset
  /\ response = Unset
  /\ change_set = [Status |-> Unset, StatusReason |-> Unset]
  /\ template_dict = <<>>
  /\ calls = <<>>
  /\ cs_calls = <<>>
  /\ firstAbsent = FALSE
  /\ gate = Unset
  /\ lastCheck = Unset
  /\ sawAbsent = FALSE
  /\ slept = FALSE
  /\ reasoned = FALSE
  /\ logged = <<>>

\* One call of _load_parameter_files on any list of files.
InitParams ==
  /\ AtRest
  /\ op = "_load_parameter_files"
  /\ pc = "load"
  /\ parameter_files \in FileLists
  /\ loaded = <<>>
  /\ described = <<>>
  /\ classified = <<>>
  /\ time_delta = [days |-> 0, seconds |-> 0]
  /\ duration = <<>>
  /\ events = <<>>
  /\ reported = <<>>
  /\ parameters_dict = <<>>
  /\ cfn_parameters = <<>>
  /\ NoPlans

LoadParameterFiles ==
  /\ pc = "load"
  /\ loaded' = _load_parameter_files(parameter_files)
  /\ pc' = "loaded"
  /\ UNCHANGED <<remote, others, faults, cs, cs_reason, invocations, op, result>>
  /\ UNCHANGED <<args, locals, seen, parameter_files>>
  /\ UNCHANGED <<described, classified, time_delta, duration>>
  /\ UNCHANGED <<events, reported, parameters_dict, cfn_parameters>>
  /\ UNCHANGED naming

NextParams == LoadParameterFiles

SpecParams == InitParams /\ [][NextParams]_vars

\* ------------------------------------- _get_stack_status, _stack_is_complete
\* The statuses of a stack that no operation of the tool leads to, which
\* describe_stacks reports all the same.
OtherStatuses == {"DELETE_COMPLETE", "REVIEW_IN_PROGRESS", "IMPORT_IN_PROGRESS", "IMPORT_COMPLETE",
                  "IMPORT_ROLLBACK_IN_PROGRESS", "IMPORT_ROLLBACK_FAILED",
                  "IMPORT_ROLLBACK_COMPLETE"}

\* What describe_stacks answers a status query: the status of the stack, or
\* the error for a stack that does not exist.
Descriptions ==
  {Ok(status) : status \in Statuses \cup OtherStatuses}
    \cup {Err("Stack with id sampleStack does not exist")}

QuerySeries == UNION {[1..n -> Descriptions] : n \in 1..MaxQueries}

\* A series of status queries, outside any operation.
InitStatus ==
  /\ AtRest
  /\ op = "_stack_is_complete"
  /\ pc = "query"
  /\ parameter_files = <<>>
  /\ loaded = <<>>
  /\ described \in QuerySeries
  /\ classified = <<>>
  /\ time_delta = [days |-> 0, seconds |-> 0]
  /\ duration = <<>>
  /\ events = <<>>
  /\ reported = <<>>
  /\ parameters_dict = <<>>
  /\ cfn_parameters = <<>>
  /\ NoPlans

\* The next query: the status _get_stack_status returns for the answer, and
\* what _stack_is_complete returns for it.
StatusQuery ==
  /\ pc = "query"
  /\ LET resp == described[Len(classified) + 1] IN
       classified' = Append(classified, [status |-> _get_stack_status(resp),
                                         complete |-> _stack_is_complete(resp)])
  /\ pc' = IF Len(classified') = Len(described) THEN "queried" ELSE "query"
  /\ UNCHANGED <<remote, others, faults, cs, cs_reason, invocations, op, result>>
  /\ UNCHANGED <<args, locals, seen>>
  /\ UNCHANGED <<parameter_files, loaded, described, time_delta, duration>>
  /\ UNCHANGED <<events, reported, parameters_dict, cfn_parameters>>
  /\ UNCHANGED naming

NextStatus == StatusQuery

SpecStatus == InitStatus /\ [][NextStatus]_vars

\* ------------------------------------------------------------ _fmt_timedelta
DigitChars == <<"0", "1", "2", "3", "4", "5", "6", "7", "8", "9">>

\* str(n) of a natural number
RECURSIVE str_int(_)
str_int(n) ==
  IF n < 10 THEN <<DigitChars[n + 1]>>
  ELSE Append(str_int(n \div 10), DigitChars[(n % 10) + 1])

\* s.zfill(width)
zfill(s, width) == IF Len(s) >= width THEN s ELSE [i \in 1..(width - Len(s)) |-> "0"] \o s

SecondsPerDay == 86400

\* datetime.timedelta(seconds=n), as end - start yields it: whole days apart,
\* and .seconds the rest below one day
timedelta(n) == [days |-> n \div SecondsPerDay, seconds |-> n % SecondsPerDay]

\* hours, rem = divmod(time_delta.seconds, 3600); minutes, seconds = divmod(rem, 60);
\* f"{hours}:{minutes}:{seconds}" of the three, each str(...).zfill(2)
_fmt_timedelta(td) ==
  LET hours == td.seconds \div 3600
      rem == td.seconds % 3600
      minutes == rem \div 60
      seconds == rem % 60
  IN zfill(str_int(hours), 2) \o <<":">> \o zfill(str_int(minutes), 2)
       \o <<":">> \o zfill(str_int(seconds), 2)

\* One call of _fmt_timedelta on the time between a start and an end.
InitFmt ==
  /\ AtRest
  /\ op = "_fmt_timedelta"
  /\ pc = "format"
  /\ parameter_files = <<>>
  /\ loaded = <<>>
  /\ described = <<>>
  /\ classified = <<>>
  /\ time_delta \in {timedelta(n) : n \in 0..MaxElapsed}
  /\ duration = <<>>
  /\ events = <<>>
  /\ reported = <<>>
  /\ parameters_dict = <<>>
  /\ cfn_parameters = <<>>
  /\ NoPlans

FmtTimedelta ==
  /\ pc = "format"
  /\ duration' = _fmt_timedelta(time_delta)
  /\ pc' = "formatted"
  /\ UNCHANGED <<remote, others, faults, cs, cs_reason, invocations, op, result>>
  /\ UNCHANGED <<args, locals, seen>>
  /\ UNCHANGED <<parameter_files, loaded, described, classified, time_delta>>
  /\ UNCHANGED <<events, reported, parameters_dict, cfn_parameters>>
  /\ UNCHANGED naming

NextFmt == FmtTimedelta

SpecFmt == InitFmt /\ [][NextFmt]_vars

\* ------------------------------------------------------- the class TestCfn
\* The tests deploy a sample stack once, report on it, and destroy it, against
\* a service that carries out what it accepted and that nobody else uses.
RemoteSucceeds ==
  /\ Running
  /\ remote \in {"CREATE_IN_PROGRESS", "DELETE_IN_PROGRESS"}
  /\ remote' = IF remote = "CREATE_IN_PROGRESS" THEN "CREATE_COMPLETE" ELSE None
  /\ UNCHANGED <<others, faults, cs, cs_reason, invocations, op, pc, result>>
  /\ UNCHANGED <<args, locals, seen>>
  /\ UNCHANGED pure

InitTestCfn ==
  /\ remote = None
  /\ others = MaxOthers
  /\ faults = MaxFaults
  /\ cs = "NONE"
  /\ cs_reason = ""
  /\ invocations = 0
  /\ op = "none"
  /\ pc = "idle"
  /\ result = Unset
  /\ auto_approve = FALSE
  /\ delete_change_set = TRUE
  /\ output_type = "text"
  /\ template_valid = TRUE
  /\ stack_status = Unset
  /\ response = Unset
  /\ change_set = [Status |-> Unset, StatusReason |-> Unset]
  /\ template_dict = <<>>
  /\ calls = <<>>
  /\ cs_calls = <<>>
  /\ firstAbsent = FALSE
  /\ gate = Unset
  /\ lastCheck = Unset
  /\ sawAbsent = FALSE
  /\ slept = FALSE
  /\ reasoned = FALSE
  /\ logged = <<>>
  /\ parameter_files = <<>>
  /\ loaded = <<>>
  /\ described = <<>>
  /\ classified = <<>>
  /\ time_delta = [days |-> 0, seconds |-> 0]
  /\ duration = <<>>
  /\ events = <<>>
  /\ reported = <<>>
  /\ parameters_dict = <<>>
  /\ cfn_parameters = <<>>
  /\ NoPlans

\* result = tropoform.apply(..., auto_approve=True)
setUpClass ==
  /\ pc = "idle"
  /\ invocations' = invocations + 1
  /\ op' = "apply"
  /\ pc' = "a_status"
  /\ auto_approve' = TRUE
  /\ delete_change_set' = TRUE
  /\ output_type' = "text"
  /\ template_valid' = TRUE
  /\ Fresh
  /\ UNCHANGED <<remote, others, faults>>
  /\ UNCHANGED pure

\* if not result: raise Exception("Unable to create sample stack"); the
\* tests run one after another once the class is set up
Test(operation, at) ==
  /\ pc = "done"
  /\ op # "destroy"
  /\ op = "apply" => result = "True"
  /\ invocations < 1 + MaxTests
  /\ invocations' = invocations + 1
  /\ op' = operation
  /\ pc' \in at
  /\ ReportArgs
  /\ Fresh
  /\ UNCHANGED <<remote, others, faults>>
  /\ UNCHANGED pure

\* result = tropoform.output(...)
test_output == Test("output", {"o_gate"})

\* result = tropoform.list_stacks(stack_name=...); result = tropoform.list_stacks()
test_list_stacks == Test("list", {"l_gate", "l_describe_all"})

\* result = tropoform.parameters(...)
test_parameters == Test("parameters", {"m_gate"})

\* result = tropoform.reason(...)
test_reason == Test("reason", {"r_events"})

\* tropoform.destroy(..., auto_approve=True)
tearDownClass ==
  /\ op \in {"output", "list", "parameters", "reason"} /\ pc = "done"
  /\ invocations' = invocations + 1
  /\ op' = "destroy"
  /\ pc' = "d_status"
  /\ auto_approve' = TRUE
  /\ delete_change_set' = TRUE
  /\ output_type' = "text"
  /\ template_valid' = TRUE
  /\ Fresh
  /\ UNCHANGED <<remote, others, faults>>
  /\ UNCHANGED pure

NextTestCfn ==
  \/ RemoteSucceeds
  \/ setUpClass
  \/ A_GetStatus
  \/ A_CreateConfirm
  \/ A_Create
  \/ A_PollCheck
  \/ A_Sleep
  \/ A_Classify
  \/ test_output
  \/ O_Gate
  \/ O_Outputs
  \/ test_list_stacks
  \/ L_Gate
  \/ L_Describe
  \/ L_DescribeAll
  \/ test_parameters
  \/ M_Gate
  \/ M_Describe
  \/ test_reason
  \/ R_Events
  \/ tearDownClass
  \/ D_GetStatus
  \/ D_Gate
  \/ D_Resources
  \/ D_Confirm
  \/ D_Delete
  \/ D_PollCheck
  \/ D_Sleep
  \/ D_Classify

SpecTestCfn == InitTestCfn /\ [][NextTestCfn]_vars

\* ------------------------------------------ _get_failed_stack_events, reason
\* The events of a stack as describe_stack_events lists them; an event of a
\* status that is no failure carries no ResourceStatusReason.
EventPool ==
  {[LogicalResourceId |-> "Bucket", ResourceStatus |-> "CREATE_FAILED",
    ResourceStatusReason |-> "sample-bucket already exists"],
   [LogicalResourceId |-> "Queue", ResourceStatus |-> "CREATE_FAILED",
    ResourceStatusReason |-> "Resource creation cancelled"],
   [LogicalResourceId |-> "Topic", ResourceStatus |-> "UPDATE_FAILED",
    ResourceStatusReason |-> "Resource update cancelled"],
   [LogicalResourceId |-> "sampleStack", ResourceStatus |-> "UPDATE_ROLLBACK_IN_PROGRESS",
    ResourceStatusReason |-> "The following resource(s) failed to update: [Topic]."],
   [LogicalResourceId |-> "sampleStack", ResourceStatus |-> "ROLLBACK_IN_PROGRESS",
    ResourceStatusReason |-> "The following resource(s) failed to create: [Bucket]."],
   [LogicalResourceId |-> "Topic", ResourceStatus |-> "UPDATE_COMPLETE"]}

EventLists == UNION {[1..n -> EventPool] : n \in 0..MaxEvents}

\* for event in events['StackEvents']: if sub in event['ResourceStatus']: result.append(event)
RECURSIVE EventsWith(_, _)
EventsWith(sub, stack_events) ==
  IF stack_events = <<>> THEN <<>>
  ELSE (IF In(Str[sub], Str[Head(stack_events).ResourceStatus]) THEN <<Head(stack_events)>> ELSE <<>>)
         \o EventsWith(sub, Tail(stack_events))

\* Mutant: the ROLLBACK_IN_PROGRESS events are added whatever was found.
_get_failed_stack_events_both(stack_events) ==
  EventsWith("FAILED", stack_events) \o EventsWith("ROLLBACK_IN_PROGRESS", stack_events)

\* the events with FAILED in their status; if len(result) == 0, those with
\* ROLLBACK_IN_PROGRESS
_get_failed_stack_events(stack_events) ==
  LET failed == EventsWith("FAILED", stack_events) IN
    IF Len(failed) = 0 THEN EventsWith("ROLLBACK_IN_PROGRESS", stack_events) ELSE failed

\* for event in events: if "Resource update cancelled" not in status_reason: logger.info(...)
RECURSIVE EventLines(_)
EventLines(failed) ==
  IF failed = <<>> THEN <<>>
  ELSE LET event == Head(failed)
           status_reason == event.ResourceStatusReason
       IN (IF ~In(Str["Resource update cancelled"], Str[status_reason])
           THEN <<[line |-> "event", ResourceStatus |-> event.ResourceStatus,
                   LogicalResourceId |-> event.LogicalResourceId,
                   ResourceStatusReason |-> status_reason]>>
           ELSE <<>>) \o EventLines(Tail(failed))

\* what reason() logs: the title, and if len(events) > 0 the column names and
\* the events' lines
ReasonLines(failed) ==
  <<[line |-> "create/update FAILED due to the following stack events:"]>>
    \o (IF Len(failed) > 0 THEN <<[line |-> "columns"]>> \o EventLines(failed) ELSE <<>>)

\* One call of reason() on a stack that exists, with any events.
InitReason ==
  /\ AtRest
  /\ op = "reason()"
  /\ pc = "reason"
  /\ parameter_files = <<>>
  /\ loaded = <<>>
  /\ described = <<>>
  /\ classified = <<>>
  /\ time_delta = [days |-> 0, seconds |-> 0]
  /\ duration = <<>>
  /\ events \in EventLists
  /\ reported = <<>>
  /\ parameters_dict = <<>>
  /\ cfn_parameters = <<>>
  /\ NoPlans

\* events = _get_failed_stack_events(...); the lines; return True
Reason ==
  /\ pc = "reason"
  /\ reported' = ReasonLines(_get_failed_stack_events(events))
  /\ result' = "True"
  /\ pc' = "reasoned"
  /\ UNCHANGED <<remote, others, faults, cs, cs_reason, invocations, op>>
  /\ UNCHANGED <<args, locals, seen>>
  /\ UNCHANGED <<parameter_files, loaded, described, classified, time_delta, duration>>
  /\ UNCHANGED <<events, parameters_dict, cfn_parameters>>
  /\ UNCHANGED naming

NextReason == Reason

SpecReason == InitReason /\ [][NextReason]_vars

\* ---------------------------------------------------- _create_cfn_parameters
\* A dict is its items in insertion order, no key twice; a value is a string
\* or a number.
DictKeys == {"key1", "key2", "key3"}
DictValues == {[str |-> "value1"], [str |-> "2"], [int |-> 2]}
Dicts ==
  {d \in UNION {[1..n -> [key : DictKeys, value : DictValues]] : n \in 0..MaxParameters} :
     \A i, j \in DOMAIN d : d[i].key = d[j].key => i = j}

\* parameters_dict.keys()
keys(d) == [i \in DOMAIN d |-> d[i].key]

\* parameters_dict[key]
Lookup(d, key) == d[CHOOSE i \in DOMAIN d : d[i].key = key].value

\* Mutant: result.insert(0, ...), the pairs come out in reverse.
RECURSIVE AppendEach_insert(_, _)
AppendEach_insert(d, ks) ==
  IF ks = <<>> THEN <<>>
  ELSE AppendEach_insert(d, Tail(ks))
         \o <<[ParameterKey |-> Head(ks), ParameterValue |-> Lookup(d, Head(ks))]>>

\* for key in parameters_dict.keys(): result.append({'ParameterKey': key,
\* 'ParameterValue': parameters_dict[key]})
RECURSIVE AppendEach(_, _)
AppendEach(d, ks) ==
  IF ks = <<>> THEN <<>>
  ELSE <<[ParameterKey |-> Head(ks), ParameterValue |-> Lookup(d, Head(ks))]>>
         \o AppendEach(d, Tail(ks))

\* result = list(); if not parameters_dict: return result; ...; return result
\* (the argument is None or a dict: given tells which)
_create_cfn_parameters(arg) ==
  IF ~arg.given \/ arg.dict = <<>> THEN <<>> ELSE AppendEach(arg.dict, keys(arg.dict))

\* One call of _create_cfn_parameters on None or on any dict.
InitCfnParameters ==
  /\ AtRest
  /\ op = "_create_cfn_parameters"
  /\ pc = "convert"
  /\ parameter_files = <<>>
  /\ loaded = <<>>
  /\ described = <<>>
  /\ classified = <<>>
  /\ time_delta = [days |-> 0, seconds |-> 0]
  /\ duration = <<>>
  /\ events = <<>>
  /\ reported = <<>>
  /\ parameters_dict \in {[given |-> FALSE, dict |-> <<>>]} \cup {[given |-> TRUE, dict |-> d] : d \in Dicts}
  /\ cfn_parameters = <<>>
  /\ NoPlans

CreateCfnParameters ==
  /\ pc = "convert"
  /\ cfn_parameters' = _create_cfn_parameters(parameters_dict)
  /\ pc' = "converted"
  /\ UNCHANGED <<remote, others, faults, cs, cs_reason, invocations, op, result>>
  /\ UNCHANGED <<args, locals, seen>>
  /\ UNCHANGED <<parameter_files, loaded, described, classified, time_delta, duration>>
  /\ UNCHANGED <<events, reported, parameters_dict>>
  /\ UNCHANGED naming

NextCfnParameters == CreateCfnParameters

SpecCfnParameters == InitCfnParameters /\ [][NextCfnParameters]_vars

\* ------------------------------------------------------------- scheduling
\* A step of the running invocation other than reading the prompt: the
\* interpreter goes on, time.sleep returns and a remote call is answered or
\* raises. Nothing makes the user answer, the service move a stack on, or a
\* new invocation start.
Step ==
  \/ A_GetStatus \/ A_Create \/ A_Gate \/ A_Update \/ A_PollCheck \/ A_Sleep \/ A_Classify
  \/ D_GetStatus \/ D_Gate \/ D_Resources \/ D_Delete \/ D_PollCheck \/ D_Sleep \/ D_Classify
  \/ P_Validate \/ P_Gate \/ P_CreateChangeSet \/ P_Describe \/ P_Loop \/ P_Report
  \/ L_Gate \/ L_Status \/ L_Describe \/ L_DescribeAll
  \/ M_Gate \/ M_Status \/ M_Describe
  \/ O_Gate \/ O_Status \/ O_Outputs
  \/ R_Events

SpecLive == Init /\ [][Next]_vars /\ WF_vars(Step)

\* Plan alone, run by an interpreter that keeps going, while the service and
\* other actors do as they please.
PlanStep == P_Validate \/ P_Gate \/ P_CreateChangeSet \/ P_Describe \/ P_Loop \/ P_Report

NextPlan ==
  \/ RemoteProgress
  \/ OtherActor
  \/ ChangeSetProgress
  \/ PlanBegin
  \/ P_Validate
  \/ P_Gate
  \/ P_CreateChangeSet
  \/ P_Describe
  \/ P_Loop
  \/ P_Report

SpecPlanLive == Init /\ [][NextPlan]_vars /\ WF_vars(PlanStep)

\* ------------------------------------------------ plan's change set names
\* Plans against one deployed stack, each in a process of its own, up to the
\* creation of the change set and its removal; the clock runs beside them.
\* datetime.now(): the date and the whole seconds into the day are all that
\* strftime keeps of it. The clock is read twice to the second, and first at
\* 00:00:59.
datetime_now == [date |-> "2019-07-04", second |-> 59 + (now \div 2)]

\* dt.strftime('%Y-%m-%d-%H-%M-%S')
strftime(dt) ==
  Str[dt.date] \o <<"-">> \o zfill(str_int(dt.second \div 3600), 2)
               \o <<"-">> \o zfill(str_int((dt.second % 3600) \div 60), 2)
               \o <<"-">> \o zfill(str_int(dt.second % 60), 2)

InitNames ==
  /\ AtRest
  /\ op = "plan"
  /\ pc = "idle"
  /\ parameter_files = <<>>
  /\ loaded = <<>>
  /\ described = <<>>
  /\ classified = <<>>
  /\ time_delta = [days |-> 0, seconds |-> 0]
  /\ duration = <<>>
  /\ events = <<>>
  /\ reported = <<>>
  /\ parameters_dict = <<>>
  /\ cfn_parameters = <<>>
  /\ NoPlans

\* Only the clock and the plans move.
NamesFrame ==
  /\ UNCHANGED <<remote, others, faults, cs, cs_reason, invocations, op, pc, result>>
  /\ UNCHANGED <<args, locals, seen>>
  /\ UNCHANGED <<parameter_files, loaded, described, classified, time_delta, duration>>
  /\ UNCHANGED <<events, reported, parameters_dict, cfn_parameters>>

Tick ==
  /\ now < MaxClock
  /\ now' = now + 1
  /\ UNCHANGED <<planner, change_set_name, change_sets>>
  /\ NamesFrame

\* change_set_name = 'change-' + datetime.now().strftime('%Y-%m-%d-%H-%M-%S')
N_Name(p) ==
  /\ planner[p] = "idle"
  /\ change_set_name' = [change_set_name EXCEPT ![p] = Str["change-"] \o strftime(datetime_now)]
  /\ planner' = [planner EXCEPT ![p] = "named"]
  /\ UNCHANGED <<now, change_sets>>
  /\ NamesFrame

\* create_change_set(..., ChangeSetName=change_set_name): the service refuses
\* a name the stack has a change set of already, and plan returns False
N_Create(p) ==
  /\ planner[p] = "named"
  /\ IF change_set_name[p] \in change_sets
     THEN planner' = [planner EXCEPT ![p] = "refused"] /\ UNCHANGED change_sets
     ELSE /\ planner' = [planner EXCEPT ![p] = "created"]
          /\ change_sets' = change_sets \cup {change_set_name[p]}
  /\ UNCHANGED <<now, change_set_name>>
  /\ NamesFrame

\* delete_change_set(ChangeSetName=change_set_id) of the plan's own change
\* set, or return with the change set saved
N_End(p) ==
  /\ planner[p] = "created"
  /\ planner' = [planner EXCEPT ![p] = "returned"]
  /\ change_sets' \in {change_sets, change_sets \ {change_set_name[p]}}
  /\ UNCHANGED <<now, change_set_name>>
  /\ NamesFrame

NextNames ==
  \/ Tick
  \/ \E p \in Plans : N_Name(p)
  \/ \E p \in Plans : N_Create(p)
  \/ \E p \in Plans : N_End(p)

SpecNames == InitNames /\ [][NextNames]_vars

\* ------------------------------------------------------ the claims' terms
\* The status categories as the specification lists them.
TerminalStatuses == {"CREATE_FAILED", "CREATE_COMPLETE", "ROLLBACK_FAILED", "ROLLBACK_COMPLETE",
                     "DELETE_FAILED", "UPDATE_COMPLETE", "UPDATE_FAILED",
                     "UPDATE_ROLLBACK_FAILED", "UPDATE_ROLLBACK_COMPLETE"}
InProgressStatuses == Statuses \ TerminalStatuses
FailedOrRollbackStatuses == {"CREATE_FAILED", "ROLLBACK_IN_PROGRESS", "ROLLBACK_FAILED",
                             "ROLLBACK_COMPLETE", "DELETE_FAILED", "UPDATE_FAILED",
                             "UPDATE_ROLLBACK_IN_PROGRESS", "UPDATE_ROLLBACK_FAILED",
                             "UPDATE_ROLLBACK_COMPLETE_CLEANUP_IN_PROGRESS",
                             "UPDATE_ROLLBACK_COMPLETE"}
TerminalSuccessStatuses == TerminalStatuses \ FailedOrRollbackStatuses
YesIgnoringCase == {"yes", "YES"}
Returned == pc = "done" /\ result \in {"True", "False", "None"}
Confirmed == auto_approve \/ response \in YesIgnoringCase
Kinds == {calls[i].kind : i \in DOMAIN calls}
ResourceLines == SelectSeq(logged, LAMBDA l : l.line = "resource")
ChangeLines == SelectSeq(logged, LAMBDA l : l.line = "change")
PlanLines == SelectSeq(logged, LAMBDA l : l.line \in {"resource", "change", "template_body"})
NoChangesReasons == {"The submitted information didn't contain changes. Submit different information to create a change set."}
PlanFailedWith(reasons) ==
  /\ op = "plan" /\ pc = "done"
  /\ change_set.Status = "FAILED" /\ change_set.StatusReason \in reasons
DeleteChangeSetCalls == {i \in DOMAIN cs_calls : cs_calls[i].kind = "delete"}
NoChangesLogged ==
  \E i \in DOMAIN logged :
    logged[i] = [line |-> "No Changes Detected for Stack", stack_name |-> "sampleStack"]
NoUpdatesMessages == {"No updates are to be performed."}
NoUpdatesRejected ==
  /\ op = "apply" /\ calls # <<>>
  /\ LET last == calls[Len(calls)]
     IN last.kind = "update" /\ ~last.ok /\ last.msg \in NoUpdatesMessages
Operations == {"apply", "plan", "destroy", "list", "output", "parameters", "reason"}
FileKeys(files) == UNION {DOMAIN files[i] : i \in DOMAIN files}
LastWith(files, k) ==
  CHOOSE i \in DOMAIN files :
    k \in DOMAIN files[i] /\ \A j \in DOMAIN files : j > i => k \notin DOMAIN files[j]
LastWins(files) == [k \in FileKeys(files) |-> files[LastWith(files, k)][k]]
Without(files, i) == [j \in 1..(Len(files) - 1) |-> IF j < i THEN files[j] ELSE files[j + 1]]
ScopeShown(scope) ==
  CASE scope = <<>> -> Str["[]"]
    [] scope = <<"Properties">> -> Str["['Properties']"]
    [] scope = <<"Properties", "Tags">> -> Str["['Properties', 'Tags']"]
PlanReported == op = "plan" /\ pc = "done" /\ change_set.Status = "CREATE_COMPLETE"
ChangesReported ==
  /\ Len(ChangeLines) = Len(change_set.Changes)
  /\ \A i \in DOMAIN ChangeLines :
       LET c == change_set.Changes[i]
           l == ChangeLines[i]
       IN /\ l.n = i
          /\ l.action = c.Action
          /\ l.logical_id = c.LogicalResourceId
          /\ l.resource_type = c.ResourceType
          /\ l.scope = ScopeShown(c.Scope)
          /\ l.resource_id = "" <=> c.Action \in {"Add", "Remove"}
          /\ l.replacement = "" <=> c.Action \in {"Add", "Remove"}
          /\ c.Action \notin {"Add", "Remove"}
               => (l.resource_id = c.PhysicalResourceId /\ l.replacement = c.Replacement)

\* C21's terms: the statuses that end in _COMPLETE or _FAILED, listed, and the
\* class of a query's answer.
EndInCompleteOrFailed ==
  {"CREATE_FAILED", "CREATE_COMPLETE", "ROLLBACK_FAILED", "ROLLBACK_COMPLETE", "DELETE_FAILED",
   "DELETE_COMPLETE", "UPDATE_COMPLETE", "UPDATE_FAILED", "UPDATE_ROLLBACK_FAILED",
   "UPDATE_ROLLBACK_COMPLETE", "IMPORT_COMPLETE", "IMPORT_ROLLBACK_FAILED",
   "IMPORT_ROLLBACK_COMPLETE"}
Class(c) == IF c.complete THEN "complete" ELSE IF c.status = None THEN "absent" ELSE "in-progress"
ExpectedClass(resp) ==
  IF resp.raised THEN "absent"
  ELSE IF resp.status \in EndInCompleteOrFailed THEN "complete" ELSE "in-progress"

\* C22's terms: the elapsed seconds, and the three fields of HH:MM:SS read
\* back as numbers.
Elapsed == time_delta.days * 86400 + time_delta.seconds
Colons == {i \in DOMAIN duration : duration[i] = ":"}
FirstColon == CHOOSE i \in Colons : \A j \in Colons : i <= j
LastColon == CHOOSE i \in Colons : \A j \in Colons : j <= i
DigitValue(c) == CHOOSE d \in 0..9 : DigitChars[d + 1] = c
IsNumber(s) == Len(s) >= 2 /\ \A i \in DOMAIN s : \E d \in 0..9 : DigitChars[d + 1] = s[i]
RECURSIVE Number(_)
Number(s) == IF s = <<>> THEN 0 ELSE 10 * Number(SubSeq(s, 1, Len(s) - 1)) + DigitValue(s[Len(s)])
HH == SubSeq(duration, 1, FirstColon - 1)
MM == SubSeq(duration, FirstColon + 1, LastColon - 1)
SS == SubSeq(duration, LastColon + 1, Len(duration))

\* C23's terms: the lines of an output report.
OutputsListed ==
  /\ logged # <<>>
  /\ logged[1] = [line |-> "STACK OUTPUTS:"]
  /\ \A i \in 2..Len(logged) : logged[i].line = "output"

\* C24's terms: the three gated reports and the listing each prints.
GatedReports == {"output", "parameters", "list"}
ListingPrinted ==
  CASE op = "list" -> \E i \in DOMAIN logged : logged[i].line = "stack"
    [] op = "parameters" -> \E i \in DOMAIN logged : logged[i].line = "parameter"
    [] op = "output" -> logged # <<>> /\ logged[1].line = "STACK OUTPUTS:"
    [] OTHER -> FALSE

\* C25's terms: the event statuses that contain FAILED and those that contain
\* ROLLBACK_IN_PROGRESS, listed; the events the claim selects and reports.
FailedEventStatuses == {"CREATE_FAILED", "UPDATE_FAILED", "DELETE_FAILED", "ROLLBACK_FAILED",
                        "UPDATE_ROLLBACK_FAILED"}
RollbackEventStatuses == {"ROLLBACK_IN_PROGRESS", "UPDATE_ROLLBACK_IN_PROGRESS"}
AnyFailedEvent == \E i \in DOMAIN events : events[i].ResourceStatus \in FailedEventStatuses
Selected(e) ==
  IF AnyFailedEvent THEN e.ResourceStatus \in FailedEventStatuses
  ELSE e.ResourceStatus \in RollbackEventStatuses
Cancelled(e) == e.ResourceStatusReason \in {"Resource update cancelled"}
ToReport == SelectSeq(events, LAMBDA e : Selected(e) /\ ~Cancelled(e))
ReportedEvents == SelectSeq(reported, LAMBDA l : l.line = "event")

\* C26's terms: the mapping read back from a list of pairs.
BackToDict(pairs) == [i \in DOMAIN pairs |-> [key |-> pairs[i].ParameterKey,
                                              value |-> pairs[i].ParameterValue]]

\* C28's terms: the polling loops, and the stack at rest in a state that ends
\* the loop.
ApplyPolling == op = "apply" /\ pc \in {"a_poll", "a_sleep"}
DestroyPolling == op = "destroy" /\ pc \in {"d_poll", "d_sleep"}
SettledForApply == remote \in TerminalStatuses
SettledForDestroy == remote \in TerminalStatuses \cup {None}

\* C29's terms: plan's polling loop and the two statuses that end it.
PlanPolling == op = "plan" /\ pc \in {"p_describe", "p_loop", "p_sleep"}
ChangeSetDone == {"CREATE_COMPLETE", "FAILED"}

\* C32's terms: the three categories as the specification words them, listed
\* over every status the service reports: terminal-failure ends in _FAILED or
\* contains ROLLBACK, terminal-success ends in _COMPLETE and is no failure or
\* rollback, in-progress is anything else.
AllStatuses == Statuses \cup OtherStatuses
TerminalFailureCategory ==
  FailedOrRollbackStatuses
    \cup {"IMPORT_ROLLBACK_IN_PROGRESS", "IMPORT_ROLLBACK_FAILED", "IMPORT_ROLLBACK_COMPLETE"}
TerminalSuccessCategory == {"CREATE_COMPLETE", "UPDATE_COMPLETE", "DELETE_COMPLETE", "IMPORT_COMPLETE"}
InProgressCategory == AllStatuses \ (TerminalFailureCategory \cup TerminalSuccessCategory)

\* C34's terms: the positions of apply, plan and destroy that query the
\* status, and a step of the operation from one of them.
StatusQueries == {"a_status", "a_gate", "a_poll", "a_sleep",
                  "d_status", "d_gate", "d_poll", "d_sleep", "p_gate"}
StatusReads == {"a_status", "a_sleep", "d_status", "d_sleep"}
QueryStep == op \in {"apply", "plan", "destroy"} /\ pc \in StatusQueries /\ pc' # pc
QueryFailed == faults' # faults

\* C37's terms: the operations that only report, and a step of one of them.
ReportingOperations == {"plan", "list", "output", "parameters", "reason"}
ReportingStep == op \in ReportingOperations /\ pc \notin {"idle", "done"} /\ pc' # pc

\* C1: apply against a stack whose status is terminal-failure (ends in _FAILED
\* or contains ROLLBACK) issues no create, update or delete call and returns
\* failure.
C1_ApplyOnFailedStackMutatesNothing ==
  (op = "apply" /\ gate \in FailedOrRollbackStatuses)
    => /\ calls = <<>>
       /\ Returned => result = "False"

\* C2 as stated: apply against an absent stack, given confirmation, issues
\* exactly one create call and no update or delete call, and returns no result
\* before a status query has seen the stack in a terminal status.
C2_ApplyCreateReturnsAfterTerminal ==
  (op = "apply" /\ firstAbsent /\ Confirmed)
    => /\ Kinds \subseteq {"create"}
       /\ Len(calls) = IF pc \in {"a_create_confirm", "a_create"} THEN 0 ELSE 1
       /\ Returned => lastCheck \in TerminalStatuses

\* C2 as amended: apply against an absent stack, given confirmation, issues
\* exactly one create call and no update or delete call, and, when that call
\* is accepted, returns no result before a status query has seen the stack in
\* a terminal status.
C2_ApplyCreateAcceptedReturnsAfterTerminal ==
  (op = "apply" /\ firstAbsent /\ Confirmed)
    => /\ Kinds \subseteq {"create"}
       /\ Len(calls) = IF pc \in {"a_create_confirm", "a_create"} THEN 0 ELSE 1
       /\ (Returned /\ calls[1].ok) => lastCheck \in TerminalStatuses

C2_Witness ==
  /\ op = "apply" /\ firstAbsent /\ response = "YES"
  /\ pc = "done" /\ result = "True"
  /\ Len(calls) = 1 /\ calls[1].ok /\ slept
  /\ lastCheck = "CREATE_COMPLETE"

\* C3: apply's result matches the status that ended its polling: failure with
\* the reason reported when that status contains FAILED or ROLLBACK, success
\* only when it is terminal-success, whatever the interleaving of the stack's
\* changes with apply's two status reads per iteration.
C3_ApplyResultMatchesPollEnd ==
  (op = "apply" /\ Returned /\ lastCheck # Unset)
    => /\ lastCheck \in FailedOrRollbackStatuses => (result = "False" /\ reasoned)
       /\ result = "True" => lastCheck \in TerminalSuccessStatuses

\* C4 as stated: at the instant apply issues create or update, or destroy
\* issues delete, the stack is not in an in-progress status, also when another
\* actor changes the stack between the check, the prompt and the call.
C4_NeverMutatesInProgress ==
  \A i \in DOMAIN calls : calls[i].at \notin InProgressStatuses

\* C4 as amended: every create is issued after this invocation's status query
\* saw no stack, and every update or delete after its completeness check saw a
\* terminal status; the stack may have left that status by the time of the call.
C4_MutatesOnlyAfterOwnCheck ==
  \A i \in DOMAIN calls :
    /\ calls[i].kind = "create" => firstAbsent
    /\ calls[i].kind \in {"update", "delete"} => gate \in TerminalStatuses

C4_Witness ==
  /\ Len(calls) = 1
  /\ calls[1].kind = "update"
  /\ gate \in TerminalStatuses
  /\ calls[1].at \in InProgressStatuses

\* C5: apply whose completeness check finds the stack mid-transition returns
\* failure at once: no prompt, no mutating call, no polling.
C5_ApplyInProgressReturnsAtOnce ==
  (op = "apply" /\ gate \in InProgressStatuses)
    => /\ pc = "done" /\ result = "False"
       /\ response = Unset
       /\ calls = <<>>
       /\ lastCheck = Unset /\ ~slept

C5_Witness ==
  /\ op = "apply" /\ gate = "UPDATE_ROLLBACK_IN_PROGRESS"
  /\ pc = "done" /\ result = "False"

C7_DestroyRefusesIncomplete ==
  (op = "destroy" /\ gate \in InProgressStatuses \cup {None})
    => /\ pc = "done" /\ result = "False"
       /\ calls = <<>>
       /\ response = Unset

C7_Witness ==
  /\ op = "destroy" /\ gate = "DELETE_IN_PROGRESS"
  /\ pc = "done" /\ result = "False"

\* C8: destroy returns success only if one of its status queries after the
\* delete call reported that the stack does not exist.
C8_DestroySuccessSawAbsent ==
  (op = "destroy" /\ pc = "done" /\ result = "True") => sawAbsent

\* C9: when the deletion destroy started ends in a status that contains FAILED
\* or ROLLBACK, destroy reports the reason and returns failure, whatever the
\* interleaving of the status change with destroy's status reads.
C9_DestroyReportsFailedDeletion ==
  (/\ op = "destroy" /\ Returned
   /\ calls # <<>> /\ calls[1].ok
   /\ lastCheck \in TerminalStatuses \cap FailedOrRollbackStatuses)
    => (result = "False" /\ reasoned)

\* C10: on every path by which plan ends after its change set was created
\* (the change set completes, fails, or a describe or delete call errors) a
\* delete call for the change set has been issued, unless retention was asked.
C10_PlanDiscardsChangeSet ==
  (/\ op = "plan" /\ pc = "done" /\ delete_change_set
   /\ \E i \in DOMAIN cs_calls : cs_calls[i].kind = "create" /\ cs_calls[i].ok)
    => \E i \in DOMAIN cs_calls : cs_calls[i].kind = "delete"

\* C11: plan against an absent stack with a valid template returns True, so
\* that the exit code is 0, for each of the output formats text, yaml and
\* json, and creates no change set.
C11_PlanAbsentReturnsSuccess ==
  (op = "plan" /\ template_valid /\ gate = None /\ output_type \in {"text", "yaml", "json"})
    => (pc = "done" /\ result = "True" /\ exit_code = 0 /\ cs_calls = <<>>)

\* C12: plan against an absent stack with text output lists every resource of
\* the template exactly once, numbered consecutively from 1 in template order,
\* each with action "Create", its logical id and its resource type.
C12_PlanAbsentTextListsResources ==
  (op = "plan" /\ gate = None /\ output_type = "text")
    => /\ logged = ResourceLines
       /\ Len(ResourceLines) = Len(template_dict)
       /\ \A i \in DOMAIN template_dict :
            /\ ResourceLines[i] = [line |-> "resource", n |-> i, action |-> "Create",
                                   logical_id |-> template_dict[i].id,
                                   resource_type |-> template_dict[i].Type]
            /\ Cardinality({j \in DOMAIN ResourceLines :
                              ResourceLines[j].logical_id = template_dict[i].id}) = 1

C12_Witness ==
  /\ op = "plan" /\ gate = None /\ output_type = "text" /\ pc = "done"
  /\ Len(template_dict) = 2
  /\ Len(logged) = 2 /\ logged[2].n = 2 /\ logged[2].logical_id = template_dict[2].id

\* C13 as stated: when plan's change set reaches FAILED with a reason
\* containing "didn't contain changes", plan logs "No Changes Detected for
\* Stack: <name>", issues exactly one delete call for the change set and
\* returns success.
C13_NoChangesReturnsSuccess ==
  PlanFailedWith(NoChangesReasons)
    => /\ NoChangesLogged
       /\ Cardinality(DeleteChangeSetCalls) = 1
       /\ result = "True"

\* C13 as amended: in that case plan logs "No Changes Detected for Stack:
\* <name>", issues exactly one delete call for the change set, and returns
\* success when that call succeeds and failure when it raises.
C13_NoChangesSuccessWhenDeleted ==
  PlanFailedWith(NoChangesReasons)
    => /\ NoChangesLogged
       /\ Cardinality(DeleteChangeSetCalls) = 1
       /\ \A i \in DeleteChangeSetCalls :
            result = IF cs_calls[i].ok THEN "True" ELSE "False"

C13_Witness ==
  /\ PlanFailedWith(NoChangesReasons)
  /\ Len(cs_calls) = 2 /\ cs_calls[2].kind = "delete" /\ cs_calls[2].ok
  /\ result = "True" /\ NoChangesLogged

\* C14: when plan's change set reaches FAILED for any other reason, plan
\* attempts to delete the change set exactly once and returns failure; a
\* failure of that delete call does not raise and does not change the result.
C14_OtherFailureReturnsFailure ==
  PlanFailedWith(CsReasons \ NoChangesReasons)
    => /\ Cardinality(DeleteChangeSetCalls) = 1
       /\ result = "False"
       /\ ~NoChangesLogged

C14_Witness ==
  /\ PlanFailedWith(CsReasons \ NoChangesReasons)
  /\ Len(cs_calls) = 2 /\ cs_calls[2].kind = "delete" /\ ~cs_calls[2].ok
  /\ result = "False"

\* C15 as stated: when plan's change set reaches CREATE_COMPLETE, plan reports
\* every Change exactly once, in the server's order, numbered from 1, with
\* action, logical id, resource type and scope, the physical resource id and
\* the replacement flag blank exactly when the action is Add or Remove; plan
\* then returns success.
C15_ReportsChangesAndSucceeds ==
  PlanReported => (ChangesReported /\ result = "True")

\* C15 as amended: the report is as stated; plan then returns success, except
\* that it returns failure when the delete call it issues for the change set
\* raises.
C15_ReportsChangesThenDiscards ==
  PlanReported
    => /\ ChangesReported
       /\ result = IF \E i \in DeleteChangeSetCalls : ~cs_calls[i].ok THEN "False" ELSE "True"

C15_Witness ==
  /\ PlanReported /\ result = "True" /\ delete_change_set
  /\ Len(change_set.Changes) = 2
  /\ change_set.Changes[1].Action = "Modify"
  /\ change_set.Changes[2].Action = "Remove"
  /\ Len(logged) = 2 /\ logged[2].n = 2 /\ logged[2].resource_id = ""

\* C16: plan validates the template before anything else: with an invalid
\* template it returns failure without querying the stack, without creating a
\* change set and without printing a plan.
C16_InvalidTemplateEndsPlan ==
  (op = "plan" /\ ~template_valid /\ pc # "p_validate")
    => /\ pc = "done"
       /\ result = "False" \/ (result = Raised /\ faults > 0)
       /\ gate = Unset
       /\ cs_calls = <<>>
       /\ PlanLines = <<>>

C16_Witness ==
  /\ op = "plan" /\ ~template_valid /\ pc = "done" /\ result = "False"
  /\ faults = 0 /\ gate = Unset

\* C17: plan against an absent stack with an output format other than text,
\* yaml or json returns failure and prints no plan.
C17_InvalidOutputTypeFails ==
  (op = "plan" /\ gate = None /\ output_type \notin {"text", "yaml", "json"})
    => /\ pc = "done" /\ result = "False"
       /\ PlanLines = <<>>
       /\ cs_calls = <<>>

C17_Witness ==
  /\ op = "plan" /\ gate = None /\ output_type = "xml"
  /\ pc = "done" /\ result = "False"
  /\ logged = <<[line |-> "invalid output type"]>>

\* C18: when apply's update call is rejected because there are no updates to
\* perform, apply returns success, does not sleep and makes no further
\* mutating call, whatever complete status the stack was in before the call.
C18_NoUpdatesIsSuccess ==
  NoUpdatesRejected
    => /\ ~slept
       /\ Len(calls) = 1
       /\ Returned => result = "True"

C21_ClassificationTotalAndStable ==
  (op = "_stack_is_complete") =>
    /\ \A i \in DOMAIN classified :
         /\ Class(classified[i]) = ExpectedClass(described[i])
         /\ classified[i].complete \in BOOLEAN
         /\ classified[i].status = (IF described[i].raised THEN None ELSE described[i].status)
    /\ \A i, j \in DOMAIN classified :
         described[i] = described[j] => classified[i] = classified[j]

\* A status that contains "COMPLETE" without ending in it was queried twice.
C21_Witness ==
  /\ op = "_stack_is_complete"
  /\ pc = "queried"
  /\ Len(described) = 2
  /\ described[1] = described[2]
  /\ described[1].status = "UPDATE_COMPLETE_CLEANUP_IN_PROGRESS"
  /\ ~classified[2].complete

\* C22: for every non-negative whole number n of elapsed seconds the
\* formatted duration is HH:MM:SS, each field of at least two digits, MM and
\* SS in 0..59, and HH*3600 + MM*60 + SS = n.
C22_DurationIsElapsed ==
  (op = "_fmt_timedelta" /\ pc = "formatted") =>
    /\ Cardinality(Colons) = 2
    /\ IsNumber(HH) /\ IsNumber(MM) /\ IsNumber(SS)
    /\ Number(MM) \in 0..59
    /\ Number(SS) \in 0..59
    /\ Number(HH) * 3600 + Number(MM) * 60 + Number(SS) = Elapsed

\* C23: from an absent stack and a service whose create and delete succeed,
\* an auto-approved apply returns success with the stack in CREATE_COMPLETE, a
\* following output returns success and lists the stack's outputs, and a
\* following auto-approved destroy returns success and leaves the stack absent.
C23_EndToEnd ==
  /\ (op = "apply" /\ pc = "done") => (result = "True" /\ remote = "CREATE_COMPLETE")
  /\ (op = "output" /\ pc = "done") => (result = "True" /\ OutputsListed)
  /\ (op = "destroy" /\ pc = "done") => (result = "True" /\ remote = None)

C25_ReasonReportsFailedEvents ==
  (op = "reason()" /\ pc = "reasoned") =>
    /\ result = "True"
    /\ Len(ReportedEvents) = Len(ToReport)
    /\ \A i \in DOMAIN ToReport :
         /\ ReportedEvents[i].LogicalResourceId = ToReport[i].LogicalResourceId
         /\ ReportedEvents[i].ResourceStatus = ToReport[i].ResourceStatus
         /\ ReportedEvents[i].ResourceStatusReason = ToReport[i].ResourceStatusReason

\* A failed event after a rollback event and a cancelled one: only the failed
\* event is reported.
C25_Witness ==
  /\ op = "reason()" /\ pc = "reasoned"
  /\ Len(events) = 3
  /\ events[1].ResourceStatus = "UPDATE_ROLLBACK_IN_PROGRESS"
  /\ events[2].ResourceStatus = "UPDATE_FAILED"
  /\ events[3].LogicalResourceId = "Bucket"
  /\ Len(ReportedEvents) = 1
  /\ ReportedEvents[1].LogicalResourceId = "Bucket"

\* C26: the list made from a parameter mapping has exactly one (ParameterKey,
\* ParameterValue) pair per key, in the mapping's key order, key and value
\* unchanged; an empty or missing mapping gives the empty list; and the list
\* converts back to the same mapping.
C26_ParametersRoundTrip ==
  (op = "_create_cfn_parameters" /\ pc = "converted") =>
    LET d == parameters_dict.dict IN
      /\ Len(cfn_parameters) = Len(d)
      /\ \A i \in DOMAIN d :
           /\ DOMAIN cfn_parameters[i] = {"ParameterKey", "ParameterValue"}
           /\ cfn_parameters[i].ParameterKey = d[i].key
           /\ cfn_parameters[i].ParameterValue = d[i].value
      /\ (~parameters_dict.given \/ d = <<>>) => cfn_parameters = <<>>
      /\ BackToDict(cfn_parameters) = d

\* The dict of the test, {'key1': 'value1', 'key2': 2}, was converted.
C26_Witness ==
  /\ op = "_create_cfn_parameters" /\ pc = "converted"
  /\ parameters_dict.dict = <<[key |-> "key1", value |-> [str |-> "value1"]],
                              [key |-> "key2", value |-> [int |-> 2]]>>
  /\ cfn_parameters = <<[ParameterKey |-> "key1", ParameterValue |-> [str |-> "value1"]],
                        [ParameterKey |-> "key2", ParameterValue |-> [int |-> 2]]>>

\* C27: apply's polling loop goes on exactly while the status its check saw is
\* in progress: once a check sees any other state, the absent stack included,
\* the loop is left and apply returns.
C27_PollingStopsOffInProgress ==
  (op = "apply" /\ lastCheck # Unset) =>
    /\ pc = "a_sleep" => lastCheck \in InProgressStatuses
    /\ lastCheck \notin InProgressStatuses => pc \in {"a_classify", "done"}

\* C28: the polling loops of apply and destroy terminate under fairness: when
\* the calls are answered and the stack, after the mutating call, reaches a
\* terminal state and stays there (a status ending in _COMPLETE or _FAILED for
\* apply; that or absent for destroy), the invocation eventually returns a
\* result; and it returns no result from the loop before a check saw such a
\* state.
C28_PollingTerminates ==
  /\ ([](faults = 0) /\ <>[]SettledForApply) => (ApplyPolling ~> Returned)
  /\ ([](faults = 0) /\ <>[]SettledForDestroy) => (DestroyPolling ~> Returned)
  /\ []((op = "apply" /\ Returned /\ lastCheck # Unset) => lastCheck \in TerminalStatuses)
  /\ []((op = "destroy" /\ Returned /\ (lastCheck # Unset \/ slept))
          => (lastCheck \in TerminalStatuses \/ sawAbsent))

\* C29: plan's polling loop ends exactly when a describe call has seen the
\* change set in CREATE_COMPLETE or FAILED: when the calls are answered and
\* the change set reaches one of the two, plan eventually returns; and as long
\* as the describe calls see any other status plan sleeps and describes again,
\* with no result.
C29_PlanPollingEndsOnDone ==
  /\ [](faults = 0) => ((PlanPolling /\ cs \in ChangeSetDone) ~> Returned)
  /\ [](op = "plan" /\ pc = "p_sleep" => change_set.Status \notin ChangeSetDone)
  /\ [](op = "plan" /\ pc = "p_report" => change_set.Status = "CREATE_COMPLETE")
  /\ [](op = "plan" /\ pc = "done" /\ change_set.Status # Unset
          /\ change_set.Status \notin ChangeSetDone => result = Raised)

\* Plan slept on a change set still being computed and returned once it saw
\* it complete.
C29_Witness ==
  /\ op = "plan" /\ pc = "done"
  /\ faults = 0
  /\ slept
  /\ change_set.Status = "CREATE_COMPLETE"
  /\ result = "True"

C31_ChangeSetNamesUnique ==
  /\ \A p, q \in Plans :
       (p # q /\ change_set_name[p] # <<>> /\ change_set_name[q] # <<>>)
         => change_set_name[p] # change_set_name[q]
  /\ \A p \in Plans : planner[p] # "refused"

\* C32: the three status categories are disjoint and cover every status, and
\* the completeness test the polling loops and gates use holds of a status
\* exactly when the status is terminal-success or terminal-failure, for
\* ROLLBACK_IN_PROGRESS and UPDATE_ROLLBACK_IN_PROGRESS too.
C32_CompletenessAgreesWithCategories ==
  /\ TerminalFailureCategory \cap TerminalSuccessCategory = {}
  /\ InProgressCategory \cap (TerminalFailureCategory \cup TerminalSuccessCategory) = {}
  /\ TerminalFailureCategory \cup TerminalSuccessCategory \cup InProgressCategory = AllStatuses
  /\ op = "_stack_is_complete" =>
       \A i \in DOMAIN classified :
         ~described[i].raised =>
           (classified[i].complete
              <=> described[i].status \in TerminalSuccessCategory \cup TerminalFailureCategory)

\* C33: when a mutating call fails (create stack, update stack for a reason
\* other than no updates, delete stack, create change set) the operation logs
\* the error and returns failure at once: it has not polled or slept since,
\* and issues no further mutating call.
C33_FailedMutationEndsOperation ==
  /\ \A i \in DOMAIN calls :
       (~calls[i].ok /\ calls[i].msg \notin NoUpdatesMessages) =>
         /\ pc = "done" /\ result = "False"
         /\ Len(calls) = 1 /\ cs_calls = <<>>
         /\ lastCheck = Unset /\ ~slept /\ ~sawAbsent /\ ~reasoned
         /\ logged = <<[line |-> "error", e |-> calls[i].msg]>>
  /\ \A i \in DOMAIN cs_calls :
       (cs_calls[i].kind = "create" /\ ~cs_calls[i].ok) =>
         /\ pc = "done" /\ result = "False"
         /\ Len(cs_calls) = 1 /\ calls = <<>>
         /\ change_set.Status = Unset /\ ~slept
         /\ Len(logged) = 1 /\ logged[1].line = "error"

\* Apply's update was refused because another actor had moved the stack on
\* after the gate: apply ended there with the one call, the error logged.
C33_Witness ==
  /\ op = "apply" /\ pc = "done" /\ result = "False"
  /\ Len(calls) = 1 /\ calls[1].kind = "update"
  /\ calls[1].msg = "Stack:sampleStack is in a state that can not be updated"
  /\ logged = <<[line |-> "error", e |-> "Stack:sampleStack is in a state that can not be updated"]>>

\* C34: a status query reports the stack absent exactly when the service
\* answers that the stack does not exist, and otherwise the status the service
\* reports; a query that fails for any other reason yields no status and no
\* absence: the error ends the invocation of apply, plan or destroy, which
\* issues no call and reports no result on it.
C34_FailedQueryPropagates ==
  [][QueryStep =>
       IF QueryFailed
       THEN /\ pc' = "done" /\ result' = Raised
            /\ UNCHANGED <<stack_status, firstAbsent, gate, lastCheck, sawAbsent>>
            /\ UNCHANGED <<remote, calls, cs_calls, logged>>
       ELSE /\ pc # "p_gate" => result' # Raised
            /\ pc \in StatusReads => stack_status' = remote
            /\ pc \in {"a_status", "d_status"} => firstAbsent' = (remote = None)
            /\ pc \in {"a_gate", "d_gate", "p_gate"} => gate' = remote
            /\ pc \in {"a_poll", "d_poll"} => lastCheck' = remote
            /\ pc = "a_status" => (pc' = "a_create_confirm") = (remote = None)]_vars

\* Apply's first status query failed for a reason of the service's own: apply
\* ended with the error and touched nothing.
C34_Witness ==
  /\ op = "apply" /\ pc = "done" /\ result = Raised
  /\ faults = 1
  /\ stack_status = Unset /\ gate = Unset
  /\ calls = <<>>

\* C35: an invocation of apply or destroy issues at most one mutating stack
\* call, and of its own kind: apply a create only when its first status read
\* reported the stack absent, an update only when its completeness read
\* reported a complete status, never both and never a delete; destroy a
\* delete only, and only after its completeness read reported complete.
C35_OneMutatingCallOfOwnKind ==
  /\ Len(calls) <= 1
  /\ \A i \in DOMAIN calls :
       /\ op \in {"apply", "destroy"}
       /\ op = "apply" =>
            /\ calls[i].kind \in {"create", "update"}
            /\ calls[i].kind = "create" => (firstAbsent /\ gate = Unset)
            /\ calls[i].kind = "update" => (~firstAbsent /\ gate \in TerminalStatuses)
       /\ op = "destroy" =>
            /\ calls[i].kind = "delete"
            /\ gate \in TerminalStatuses

\* Apply read a status, found the stack complete at its gate and issued its
\* one call, an update, which the service accepted.
C35_Witness ==
  /\ op = "apply" /\ pc = "a_poll"
  /\ ~firstAbsent /\ gate = "UPDATE_ROLLBACK_COMPLETE"
  /\ calls = <<[kind |-> "update", at |-> "UPDATE_ROLLBACK_COMPLETE", ok |-> TRUE, msg |-> ""]>>

\* C36: the status apply and destroy classify after their polling loop was
\* read after the mutating call was issued: it is never the reading taken
\* before the call, and in apply never the absent value, also when the first
\* completeness check after the call sees a complete stack already.
C36_ClassifiesStatusReadAfterCall ==
  /\ (op = "apply" /\ pc = "a_classify") => (slept /\ stack_status # None)
  /\ (op = "destroy" /\ pc = "d_classify") => slept

\* C37: plan, list, output, parameters and reason issue no create, update or
\* delete stack call: no step of theirs changes the stack at the service, and
\* the only calls that change anything are plan's creation and deletion of
\* its change set.
C37_ReportingLeavesStackAlone ==
  [][ReportingStep =>
       /\ remote' = remote
       /\ calls = <<>> /\ calls' = <<>>
       /\ op' = op
       /\ op # "plan" => (cs' = cs /\ cs_calls' = <<>>)
       /\ \A i \in DOMAIN cs_calls' : cs_calls'[i].kind \in {"create", "delete"}]_vars

\* Plan ran to its end on a deployed stack: it created a change set, reported
\* it and deleted it, and issued no stack call.
C37_Witness ==
  /\ op = "plan" /\ pc = "done" /\ result = "True"
  /\ cs_calls = <<[kind |-> "create", ok |-> TRUE], [kind |-> "delete", ok |-> TRUE]>>
  /\ calls = <<>>
  /\ remote = gate

\* C38: plan honours the request to retain the change set only for a change
\* set that reached CREATE_COMPLETE: then no delete call is issued, the change
\* set stays and plan returns success. For a change set that reached FAILED
\* the delete call is issued whether or not retention was requested, and the
\* change set is gone once that call succeeded.
C38_RetentionOnlyForComplete ==
  (op = "plan" /\ pc = "done") =>
    /\ (change_set.Status = "CREATE_COMPLETE" /\ ~delete_change_set) =>
         /\ DeleteChangeSetCalls = {}
         /\ cs = "CREATE_COMPLETE"
         /\ result = "True"
    /\ (change_set.Status = "CREATE_COMPLETE" /\ delete_change_set) =>
         Cardinality(DeleteChangeSetCalls) = 1
    /\ change_set.Status = "FAILED" =>
         /\ Cardinality(DeleteChangeSetCalls) = 1
         /\ cs_calls[Len(cs_calls)].kind = "delete"
         /\ cs_calls[Len(cs_calls)].ok => cs = "DELETED"

\* Retention was requested and the change set failed: plan deleted it.
C38_Witness ==
  /\ op = "plan" /\ pc = "done"
  /\ ~delete_change_set
  /\ change_set.Status = "FAILED"
  /\ cs_calls = <<[kind |-> "create", ok |-> TRUE], [kind |-> "delete", ok |-> TRUE]>>
  /\ cs = "DELETED"

====
